---------------------------- MODULE Spec2Model ----------------------------
(***************************************************************************)
(* A model of MissEp: the reconciliation of a media library against the    *)
(* TMDB season/episode structure (src/main.py), the cache record           *)
(* (src/utils/helpers.py) and the MoviePilot remediation dispatcher        *)
(* (src/media_manager/moviepilot.py).                                      *)
(*                                                                         *)
(* The specifications of the module, each over its own variables:          *)
(*   SpecDiff      the missing-episode computation of process_show, as a   *)
(*                 pure function of a local inventory and a structure;     *)
(*   Spec          a run of main_async over a list of shows (SpecLive: the *)
(*                 same under fairness);                                   *)
(*   SpecLong      the loop of main_async over a long list of shows, with  *)
(*                 process_show as one step;                               *)
(*   SpecDispatch  one invocation of handle_missing_episodes, request by   *)
(*                 request;                                                *)
(*   SpecCache     the cache record and its files;                         *)
(*   SpecResolve   search_tv_show;                                         *)
(*   SpecStructure get_tmdb_structure, request by request;                 *)
(*   SpecParse     parse_filename, as a pure function of a file name;      *)
(*   SpecScan      list_directories and get_directory_structure of the     *)
(*                 four storage backends (src/storage), over one tree;     *)
(*   SpecTwice     two runs of main_async in succession over one library   *)
(*                 and catalog, with process_show as one step.             *)
(***************************************************************************)
EXTENDS Integers, Sequences, FiniteSets, TLC

(***************************************************************************)
(* Bounds of the model.                                                    *)
(***************************************************************************)
\* seasons of a canonical structure are 1..MaxSeason, of an inventory 0..MaxSeason
MaxSeason == 2
\* episode numbers are 1..MaxEpisode
MaxEpisode == 2
\* a library holds MaxShows shows
MaxShows == 2
\* candidates have no year or one of MaxYear years
MaxYear == 4
\* the catalog answers a search with at most MaxCandidates candidates
MaxCandidates == 3
\* a run resolves at most MaxResolves titles
MaxResolves == 3
\* a long run is over at most MaxLongRun shows
MaxLongRun == 21
\* a path is made of MaxFragments fragments
MaxFragments == 3
\* a file of a show is below at most MaxDepth directories
MaxDepth == 2
\* the tree of a show holds at most MaxFiles files
MaxFiles == 2
\* a search returns at most MaxResults results
MaxResults == 2
\* the service answers at most MaxAuthExpired requests of an invocation with 401
MaxAuthExpired == 2

(***************************************************************************)
(* Constants of the program.                                               *)
(***************************************************************************)
\* the cache is saved after every tenth show (src/main.py:285)
SaveCadence == 10
\* closest_diff before the first candidate (src/tmdb/api.py:105)
InitialClosestDiff == 9999

VARIABLES
    \* ---- SpecDiff: the diff of process_show (src/main.py:118-125)
    dLocal,        \* local_seasons: season -> set of episodes
    dCanonical,    \* tmdb_structure: season -> list of episodes
    dMissing,      \* missing: season -> sorted list of episodes
    dPc,           \* "start" | "done"
    \* ---- SpecDispatch: handle_missing_episodes (src/media_manager/moviepilot.py)
    mpToken,       \* access_token is set
    mpIn,          \* the arguments of the invocation
    mpPc,          \* position of the invocation
    mpShould,      \* should_subscribe
    mpSubOk,       \* success of line 305: "unset" | "yes" | "no"
    mpResults,     \* results of search(), sorted by seeders
    mpIdx,         \* the result the loop of line 338 is at
    mpOut,         \* the MoviePilotResult returned
    mpLog,         \* what the invocation has requested so far
    \* ---- Spec: a run of main_async (src/main.py)
    rDirs,         \* dirs: the shows of the run, in order
    rSpecific,     \* the run is for one show asked for (--show)
    rConfig,       \* AUTO_SUBSCRIBE and AUTO_DOWNLOAD
    rIdx,          \* index: the position in dirs, from 1
    rPc,           \* position of the run
    rCache,        \* cache: the CacheData of the run
    rDisk,         \* the cache file
    rReport,       \* the report: the shows of its blocks, in order
    rSkipLog,      \* the skip log: the show of each line, in order
    rShow,         \* the locals of process_show
    rRet,          \* what the last process_show handed back
    rFx,           \* what the current process_show has done so far
    rEntry,        \* the state the current process_show was entered in
    \* ---- SpecCache: the cache record and its files (src/utils/helpers.py)
    cRec,          \* the CacheData the process holds
    cFile,         \* the file at the cache path
    cTmp,          \* the file at the temporary path (.tmp)
    cBak,          \* the file at the backup path (.bak)
    cPc,           \* position of the process
    cWho,          \* who saves: the run or reset_cache
    cPrev,         \* the cache file as it was when the last save began
    cLast,         \* the last cache operation that ended, and how
    cMarked,       \* the shows marked complete since the last reset
    \* ---- SpecResolve: search_tv_show (src/tmdb/api.py)
    sMap,          \* cache.tmdb_map
    sCatalog,      \* the candidates the catalog has for the name
    sTitle,        \* the title of the last call
    sRet,          \* what the last call handed back
    sAsked,        \* the last call made a request of the catalog
    sBefore,       \* cache.tmdb_map when the last call began
    sCount,        \* the calls made so far
    \* ---- SpecLong: the loop of main_async over a long run (src/main.py:264-308)
    lDirs,         \* dirs
    lIdx,          \* index
    lPc,           \* position of the run
    lRet,          \* what the last process_show handed back
    lOldest,       \* the first show whose change of the cache is not on file (0: none)
    lNewest,       \* the last show whose change of the cache is not on file (0: none)
    lWriteFailed,  \* a write of the cache file has failed in this run
    lFx,           \* what the last step of the loop has done
    \* ---- SpecStructure: get_tmdb_structure (src/tmdb/api.py:136-190)
    tSeasons,      \* tv_data["seasons"]: the season numbers, as declared
    tPos,          \* the season the loop of line 165 is at
    tStructure,    \* structure
    tPc,           \* position of the call
    tLog,          \* what each season request came back with
    tDeclared,     \* the episodes the catalog holds for each season requested
    \* ---- SpecParse: parse_filename (src/utils/helpers.py:93-136)
    pPath,         \* filepath, as a list of characters
    pKnown,        \* known_season (-1: None)
    pOut,          \* what parse_filename returned
    pPc,           \* "start" | "done"
    \* ---- SpecScan: the storage backends (src/storage)
    bTree,         \* the files of the show's directory, each a path of names
    bBackend,      \* STORAGE_TYPE
    bFail,         \* the directory whose listing fails, and how
    bOp,           \* the operation called
    bOut,          \* what it returned, or that it raised
    bPc,           \* "start" | "done"
    \* ---- SpecTwice: two runs of main_async (src/main.py:181-308)
    wLibrary,      \* what each show holds and what the catalog has for it
    wDirs,         \* dirs, the same in both runs
    wSpecific,     \* the runs are for one show asked for (--show)
    wRun,          \* the run: 1 or 2
    wIdx,          \* index
    wPc,           \* position of the run
    wCache,        \* cache
    wDisk,         \* the cache file
    wFirst,        \* cache at the end of the first run
    wSeen          \* what process_show did with each show, in each run

diffVars == <<dLocal, dCanonical, dMissing, dPc>>
mpVars == <<mpToken, mpIn, mpPc, mpShould, mpSubOk, mpResults, mpIdx, mpOut, mpLog>>
runVars == <<rDirs, rSpecific, rConfig, rIdx, rPc, rCache, rDisk, rReport,
             rSkipLog, rShow, rRet, rFx, rEntry>>
cacheVars == <<cRec, cFile, cTmp, cBak, cPc, cWho, cPrev, cLast, cMarked>>
resolveVars == <<sMap, sCatalog, sTitle, sRet, sAsked, sBefore, sCount>>
longVars == <<lDirs, lIdx, lPc, lRet, lOldest, lNewest, lWriteFailed, lFx>>
structureVars == <<tSeasons, tPos, tStructure, tPc, tLog, tDeclared>>
parseVars == <<pPath, pKnown, pOut, pPc>>
scanVars == <<bTree, bBackend, bFail, bOp, bOut, bPc>>
twiceVars == <<wLibrary, wDirs, wSpecific, wRun, wIdx, wPc, wCache, wDisk,
               wFirst, wSeen>>
laterVars == <<longVars, structureVars, parseVars, scanVars, twiceVars>>
vars == <<diffVars, mpVars, runVars, cacheVars, resolveVars, laterVars>>
\* the variables outside each part
notMpVars == <<diffVars, runVars, cacheVars, resolveVars, laterVars>>
notDiffVars == <<mpVars, runVars, cacheVars, resolveVars, laterVars>>
notRunVars == <<diffVars, mpVars, cacheVars, resolveVars, laterVars>>
notCacheVars == <<diffVars, mpVars, runVars, resolveVars, laterVars>>
notResolveVars == <<diffVars, mpVars, runVars, cacheVars, laterVars>>
notLongVars == <<diffVars, mpVars, runVars, cacheVars, resolveVars,
                 structureVars, parseVars, scanVars, twiceVars>>
notStructureVars == <<diffVars, mpVars, runVars, cacheVars, resolveVars,
                      longVars, parseVars, scanVars, twiceVars>>
notParseVars == <<diffVars, mpVars, runVars, cacheVars, resolveVars,
                  longVars, structureVars, scanVars, twiceVars>>
notScanVars == <<diffVars, mpVars, runVars, cacheVars, resolveVars,
                 longVars, structureVars, parseVars, twiceVars>>
notTwiceVars == <<diffVars, mpVars, runVars, cacheVars, resolveVars,
                  longVars, structureVars, parseVars, scanVars>>

(***************************************************************************)
(* Helpers: Python's dict, set and sorted.                                 *)
(***************************************************************************)
\* the empty dict
EmptyMap == <<>>

\* set(list)
ToSet(seq) == {seq[i] : i \in DOMAIN seq}

\* min of a non-empty set of integers
SetMin(S) == CHOOSE x \in S : \A y \in S : x <= y

\* max of a non-empty set of integers
SetMax(S) == CHOOSE x \in S : \A y \in S : x >= y

\* sorted(list(S)) for a set of integers S: ascending
RECURSIVE SortedList(_)
SortedList(S) ==
    IF S = {} THEN <<>>
    ELSE LET m == SetMin(S) IN <<m>> \o SortedList(S \ {m})

\* list(S) without the sort: some order of the set's own (here: descending)
RECURSIVE UnsortedList(_)
UnsortedList(S) ==
    IF S = {} THEN <<>>
    ELSE LET m == SetMax(S) IN <<m>> \o UnsortedList(S \ {m})

\* local_seasons.get(season, set())
LocalGet(local, season) ==
    IF season \in DOMAIN local THEN local[season] ELSE {}

(***************************************************************************)
(* The diff of process_show: src/main.py:118-125.                          *)
(***************************************************************************)
\* mutant: the difference taken the wrong way round
SeasonDiffSwapped(local, canonical, season) ==
    LocalGet(local, season) \ ToSet(canonical[season])

\* diff = all_eps - local_eps
SeasonDiff(local, canonical, season) ==
    ToSet(canonical[season]) \ LocalGet(local, season)

\* mutant: missing[season] = list(diff), the sort forgotten
MissingEntryUnsorted(diff) == UnsortedList(diff)

\* missing[season] = sorted(list(diff))
MissingEntry(diff) == SortedList(diff)

\* the loop over tmdb_structure: an entry for each season with a non-empty diff
ComputeMissing(local, canonical) ==
    LET hit == {s \in DOMAIN canonical : SeasonDiff(local, canonical, s) # {}}
    IN  [s \in hit |-> MissingEntry(SeasonDiff(local, canonical, s))]

(***************************************************************************)
(* The inputs process_show can hand to its diff.                           *)
(***************************************************************************)
LocalSeasonIds == 0..MaxSeason
CanonicalSeasonIds == 1..MaxSeason
EpisodeIds == 1..MaxEpisode

\* partial functions from D to R
PartialFns(D, R) == UNION {[S -> R] : S \in SUBSET D}

\* the episode lists of the catalog: the episodes of a season in ascending order
\* (a season may have none); line 121 turns the list into a set, so its order
\* and its duplicates never reach the diff
ListsOver(S) == {SortedList(T) : T \in SUBSET S}

\* local_seasons is a defaultdict(set) filled by add(): no key with an empty set,
\* and process_show returns at line 98 when nothing was parsed
LocalInventories ==
    PartialFns(LocalSeasonIds, (SUBSET EpisodeIds) \ {{}}) \ {EmptyMap}

\* get_tmdb_structure never yields season 0; process_show returns at line 111
\* on an empty structure
CanonicalStructures ==
    PartialFns(CanonicalSeasonIds, ListsOver(EpisodeIds)) \ {EmptyMap}

(***************************************************************************)
(* The cache record and its file (src/utils/helpers.py:138-222).           *)
(***************************************************************************)
\* CacheData.create_empty()
EmptyCache == [complete_dirs |-> EmptyMap, tmdb_map |-> EmptyMap]

\* d with key k set to v (d[k] = v)
MapSet(d, k, v) == [x \in (DOMAIN d) \cup {k} |-> IF x = k THEN v ELSE d[x]]

\* CacheData.is_complete_dir
IsCompleteDir(cache, dir_name) == dir_name \in DOMAIN cache.complete_dirs

\* mutant: the show is not recorded
MarkCompleteDirForgotten(cache, dir_name, tmdb_id) == cache

\* CacheData.mark_complete_dir
MarkCompleteDir(cache, dir_name, tmdb_id) ==
    [cache EXCEPT !.complete_dirs =
        MapSet(@, dir_name, [checked_at |-> "now", tmdb_id |-> tmdb_id])]

\* cache.tmdb_map[title] = show.id (src/tmdb/api.py:92, 99, 116, 124)
AddTmdbMapping(cache, title, tmdb_id) ==
    [cache EXCEPT !.tmdb_map = MapSet(@, title, tmdb_id)]

\* no file at the path
NoFile == [content |-> "none", complete_dirs |-> <<>>, tmdb_map |-> <<>>]

\* json.dumps of a dict (line 199): its key-value pairs, one after the other
JsonDumps(map) ==
    LET keys == SortedList(DOMAIN map)
    IN  [i \in 1..Len(keys) |-> <<keys[i], map[keys[i]]>>]

RECURSIVE JsonLoads(_)
\* mutant: the last pair of the object is not read
JsonLoadsShort(pairs) ==
    IF pairs = <<>>
    THEN EmptyMap
    ELSE JsonLoads(SubSeq(pairs, 1, Len(pairs) - 1))

\* json.loads of an object (line 210): the dict its pairs build, in order
JsonLoads(pairs) ==
    IF pairs = <<>>
    THEN EmptyMap
    ELSE LET n == Len(pairs)
         IN  MapSet(JsonLoads(SubSeq(pairs, 1, n - 1)), pairs[n][1], pairs[n][2])

\* save_cache (lines 193-199): the document written for the record
SavedDocument(cache) ==
    [content |-> "json", complete_dirs |-> JsonDumps(cache.complete_dirs),
     tmdb_map |-> JsonDumps(cache.tmdb_map)]

\* the number of pairs a document holds
DocumentSize(doc) == Len(doc.complete_dirs) + Len(doc.tmdb_map)

\* what a file holds of a document when only its first n pairs were written:
\* text that json.loads rejects
Truncated(doc, n) ==
    LET m == Len(doc.complete_dirs)
    IN  [content |-> "cut",
         complete_dirs |-> SubSeq(doc.complete_dirs, 1, IF n < m THEN n ELSE m),
         tmdb_map |-> SubSeq(doc.tmdb_map, 1, IF n < m THEN 0 ELSE n - m)]

\* a file whose bytes are not UTF-8 text (a document cut inside a multi-byte
\* character: titles are written with ensure_ascii=False, line 199)
Undecodable(file) == [file EXCEPT !.content = "bytes"]

\* load_cache (lines 204-222): how the call ends for the file at the cache
\* path. f.read() raises UnicodeDecodeError on bytes that are not UTF-8, which
\* is neither a JSONDecodeError nor an IOError (line 215).
LoadOutcome(file) ==
    CASE file.content = "none" -> "empty"
      [] file.content = "json" -> "loaded"
      [] file.content = "cut" -> "recovered"
      [] file.content = "bytes" -> "raised"

\* load_cache: the record it returns (when it returns one)
LoadCache(file) ==
    IF LoadOutcome(file) = "loaded"
    THEN [complete_dirs |-> JsonLoads(file.complete_dirs),
          tmdb_map |-> JsonLoads(file.tmdb_map)]
    ELSE EmptyCache

\* load_cache (lines 218-221): the backup file after the call
BackupAfterLoad(file, backup) ==
    IF LoadOutcome(file) = "recovered" THEN file ELSE backup

(***************************************************************************)
(* A run of main_async (src/main.py:180-308) over the shows of a library.  *)
(***************************************************************************)
\* the show directories of the library, by name
ShowIds == 1..MaxShows

\* the id the catalog knows the show by
CatalogId(dir_name) == 100 + dir_name

\* the id an earlier run memoized for the show: the catalog's answer of its
\* day, not the one of today
EarlierId(dir_name) == 200 + dir_name

\* mutant: the cache is never consulted
CacheHitNever(cache, title) == FALSE

\* search_tv_show, line 45: title in cache.tmdb_map
CacheHit(cache, title) == title \in DOMAIN cache.tmdb_map

\* a catalog structure of n seasons with episodes 1..m each
Structure(n, m) == [s \in 1..n |-> [i \in 1..m |-> i]]

\* the structures get_tmdb_structure may return for a show
RunStructures ==
    {Structure(n, m) : n \in CanonicalSeasonIds, m \in EpisodeIds}

\* the scan of a show holding episodes 1..m of seasons 1..n, season by season,
\* and `junk` files whose names do not parse; each entry is a file with what
\* parse_filename makes of it
ScanOf(n, m, junk) ==
    [k \in 1..(n * m) |->
        [parsed |-> TRUE, season |-> ((k - 1) \div m) + 1,
         episode |-> ((k - 1) % m) + 1]]
    \o [k \in 1..junk |-> [parsed |-> FALSE, season |-> 0, episode |-> 0]]

\* the file lists get_directory_structure may return for a show
RunScans ==
    {ScanOf(n, m, 0) : n \in 0..MaxSeason, m \in EpisodeIds}
        \cup {ScanOf(n, 1, 1) : n \in 0..1}

\* lines 80-92: local_seasons after the parse loop over files
RECURSIVE LocalSeasons(_)
LocalSeasons(files) ==
    IF files = <<>> THEN EmptyMap
    ELSE LET f == files[Len(files)]
             rest == LocalSeasons(SubSeq(files, 1, Len(files) - 1))
         IN  IF f.parsed
             THEN MapSet(rest, f.season, LocalGet(rest, f.season) \cup {f.episode})
             ELSE rest

\* valid_count
ValidCount(files) == Cardinality({k \in DOMAIN files : files[k].parsed})

\* len(skipped_files)
SkippedCount(files) == Cardinality({k \in DOMAIN files : ~files[k].parsed})

\* mutant: a show recorded as complete is reconciled again
ShouldSkipNever(cache, dir_name, is_specific_show) == FALSE

\* line 56: the show is skipped
ShouldSkip(cache, dir_name, is_specific_show) ==
    IsCompleteDir(cache, dir_name) /\ ~is_specific_show

\* mutant: a show without a parsed file is reconciled all the same
NoValidFileNever(local_seasons) == FALSE

\* line 98: not any(local_seasons.values()); a season of local_seasons holds
\* the episode it was made for
NoValidFile(local_seasons) == local_seasons = EmptyMap

\* mutant: the block of a show is written whatever its diff
HasMissingAlways(missing) == TRUE

\* line 128: missing holds a season
HasMissing(missing) == missing # EmptyMap

\* mutant: the seasons in the order the dict holds them
SeasonOrderAsStored(missing) == UnsortedList(DOMAIN missing)

\* line 145: sorted(missing)
SeasonOrder(missing) == SortedList(DOMAIN missing)

\* mutant: an exception of the dispatcher leaves the loop over the seasons
RemainingUnlessRaised(todo, outcome) ==
    IF outcome = "raised" THEN <<>> ELSE Tail(todo)

\* lines 145, 165-168: the seasons still to come once a season is handled,
\* whatever the dispatcher returned or raised
Remaining(todo, outcome) == Tail(todo)

\* the locals of process_show before its scan
NoShow ==
    [local |-> EmptyMap, valid |-> 0, skipped |-> 0, tmdb_id |-> 0,
     diffed |-> FALSE, missing |-> EmptyMap, todo |-> <<>>, mp_results |-> <<>>,
     failed |-> "none", calls |-> <<>>, result_lines |-> <<>>]

\* a line of result_lines: the header of the block (lines 138-140), a season
\* and its missing episodes (line 146), the separator (line 172), or a line
\* of mp_results (lines 162, 166)
Line(kind, season, episodes, outcome) ==
    [kind |-> kind, season |-> season, episodes |-> episodes,
     outcome |-> outcome]

\* lines 162-168: the line of mp_results for what the dispatcher did
ResultLine(season, outcome) == Line("result", season, <<>>, outcome)

\* lines 170-173: result_lines as it is written, with the lines of mp_results
\* after a separator when there are any
BlockLines(result_lines, mp_results) ==
    IF mp_results = <<>> THEN result_lines
    ELSE result_lines \o <<Line("separator", 0, <<>>, "none")>> \o mp_results

\* the cache files an earlier run may have left: for each show nothing, the
\* id of the show, or the id and the record of the complete show
EarlierCaches ==
    {[complete_dirs |->
        [d \in done |-> [checked_at |-> "earlier", tmdb_id |-> EarlierId(d)]],
      tmdb_map |-> [d \in known |-> EarlierId(d)]] :
        <<known, done>> \in
            UNION {{<<k, c>> : c \in SUBSET k} : k \in SUBSET ShowIds}}

(***************************************************************************)
(* Text: titles and the S<ss>E<ee> token, as lists of characters.          *)
(***************************************************************************)
Digits == <<"0", "1", "2", "3", "4", "5", "6", "7", "8", "9">>

\* str(n) for n >= 0
RECURSIVE Decimal(_)
Decimal(n) ==
    IF n < 10 THEN <<Digits[n + 1]>>
    ELSE Decimal(n \div 10) \o <<Digits[(n % 10) + 1]>>

\* f"{n:02d}": at least two digits, zero-padded
Pad2(n) == IF n < 10 THEN <<"0">> \o Decimal(n) ELSE Decimal(n)

\* f"S{season:02d}E{ep:02d}"
Token(season, ep) == <<"S">> \o Pad2(season) \o <<"E">> \o Pad2(ep)

\* needle in hay (Python's substring test)
Contains(hay, needle) ==
    \E i \in 0..(Len(hay) - Len(needle)) :
        SubSeq(hay, i + 1, i + Len(needle)) = needle

\* any(f"S{season:02d}E{ep:02d}" in title for ep in episodes)
TitleMatches(title, season, episodes) ==
    \E k \in DOMAIN episodes : Contains(title, Token(season, episodes[k]))

(***************************************************************************)
(* search(): the result list, sorted by seeders, most seeders first        *)
(* (src/media_manager/moviepilot.py:133-137).                              *)
(***************************************************************************)
\* the position of the first element with the most seeders
FirstBest(q) ==
    CHOOSE i \in DOMAIN q :
        /\ \A j \in DOMAIN q : q[j].seeders <= q[i].seeders
        /\ \A j \in DOMAIN q : j < i => q[j].seeders < q[i].seeders

\* q without its element at position i
RemoveAt(q, i) == SubSeq(q, 1, i - 1) \o SubSeq(q, i + 1, Len(q))

\* results.sort(key=lambda x: x["seeders"], reverse=True): stable
RECURSIVE SortBySeeders(_)
SortBySeeders(q) ==
    IF q = <<>> THEN <<>>
    ELSE LET i == FirstBest(q) IN <<q[i]>> \o SortBySeeders(RemoveAt(q, i))

(***************************************************************************)
(* handle_missing_episodes: its decisions                                  *)
(* (src/media_manager/moviepilot.py:284-335).                              *)
(***************************************************************************)
\* mutant: a missing count equal to the threshold still subscribes
ShouldSubscribeStrict(auto_subscribe, subscribe_threshold, episodes) ==
    IF subscribe_threshold > 0 /\ Len(episodes) < subscribe_threshold
    THEN FALSE
    ELSE auto_subscribe

\* lines 285-289: should_subscribe
ShouldSubscribe(auto_subscribe, subscribe_threshold, episodes) ==
    IF subscribe_threshold > 0 /\ Len(episodes) <= subscribe_threshold
    THEN FALSE
    ELSE auto_subscribe

\* mutant: a successful subscribe falls through when auto_download is set
ReturnsAfterSubscribeOnlyOnFailure(success, auto_download) ==
    ~auto_download

\* lines 306-319: whether the call returns right after create_subscribe
ReturnsAfterSubscribe(success, auto_download) ==
    success \/ ~auto_download

\* mutant: no download after a failed subscribe
EntersDownloadNoFallback(auto_download, should_subscribe, success) ==
    auto_download /\ ~should_subscribe

\* mutant: the download path does not ask for auto_download
EntersDownloadUnasked(auto_download, should_subscribe, success) ==
    ~should_subscribe \/ (should_subscribe /\ success # "yes")

\* line 330; success is read only when should_subscribe holds
EntersDownload(auto_download, should_subscribe, success) ==
    auto_download /\ (~should_subscribe \/ (should_subscribe /\ success # "yes"))

\* mutant: the next result, whatever its title
NextMatchAny(results, from, season, episodes) ==
    IF from <= Len(results) THEN from ELSE 0

\* lines 338-340: the first result at or after `from` whose title holds the
\* token of a missing episode; 0 when there is none
NextMatch(results, from, season, episodes) ==
    LET hits == {i \in from..Len(results) :
                    TitleMatches(results[i].title, season, episodes)}
    IN  IF hits = {} THEN 0 ELSE SetMin(hits)

(***************************************************************************)
(* handle_missing_episodes, request by request.                            *)
(***************************************************************************)
\* mutant: every result reports success
ResultOptimistic(success, kind, season, title, id) ==
    [success |-> TRUE, kind |-> kind, season |-> season,
     title |-> title, id |-> id]

\* MoviePilotResult(success, message, data): the message by its kind, the
\* data by the id it carries (0: data is None)
Result(success, kind, season, title, id) ==
    [success |-> success, kind |-> kind, season |-> season,
     title |-> title, id |-> id]

\* no result returned yet
NoResult == Result(FALSE, "none", 0, <<>>, 0)

\* what an invocation has requested so far
EmptyLog ==
    [passedLogin |-> FALSE,  \* the login check of lines 270-276 was passed
     logins |-> 0,           \* login() calls
     expired |-> 0,          \* requests answered 401
     subCalls |-> 0,         \* create_subscribe calls made at line 305
     subReqs |-> 0,          \* POST /subscribe requests of that call
     subLogins |-> 0,        \* login() calls made inside that call
     subId |-> 0,            \* the id the service gave the subscription
     searchCalls |-> 0,      \* search() calls made at line 335
     searchReqs |-> 0,       \* GET /search/title requests of that call
     searchLogins |-> 0,     \* login() calls made inside that call
     searchExpired |-> FALSE,\* the search request was answered 401
     submitted |-> <<>>,     \* results handed to add_download_task, in order
     accepted |-> 0,         \* add_download_task calls that returned success
     dlReqs |-> 0,           \* POST /download/add requests of the current call
     dlLogins |-> 0]         \* login() calls made inside the current call

\* login(): a token, a refusal (returns False), or an error raised by its
\* async_error_handler (lines 56-84)
LoginOutcomes == {"ok", "refused", "error"}

\* ids the service hands out
ServiceIds == {1, 2}

\* seeders of a search result
SeederCounts == {0, 1}

\* titles the resource index may return for a season: a release of each
\* episode, and a release numbered without zero padding
Titles(season) ==
    {<<"A", " ">> \o Token(season, e) \o <<" ", "H">> : e \in EpisodeIds}
        \cup {<<"A", " ", "S">> \o Decimal(season) \o <<"E", "1">>}

\* the lists a successful search request may return, before the sort
RawResults(season) ==
    UNION {[1..n -> [title : Titles(season), seeders : SeederCounts]] :
              n \in 0..MaxResults}

\* the arguments process_show passes (src/main.py:153-161): a season of the
\* MissingSet (the last one stands for any) with its non-empty ascending list
\* of missing episodes
DispatchInputs ==
    [auto_subscribe : BOOLEAN, auto_download : BOOLEAN,
     subscribe_threshold : 0..MaxEpisode,
     season : {MaxSeason},
     episodes : ListsOver(EpisodeIds) \ {<<>>}]

\* return MoviePilotResult(...)
Return(out) ==
    /\ mpPc' = "done"
    /\ mpOut' = out

\* lines 330-385, reached when the call did not return after the subscribe
AfterSubscribe(should, success) ==
    IF EntersDownload(mpIn.auto_download, should, success)
    THEN mpPc' = "search" /\ mpOut' = mpOut
    ELSE Return(Result(FALSE, "no_action", 0, <<>>, 0))

\* mutant: the invocation logs in whether it holds a token or not
LoginCheckAlways(token) == LoginOutcomes

\* lines 270-271: login() is called only when access_token is not set
LoginCheck(token) == IF token THEN {"held"} ELSE LoginOutcomes

\* lines 270-302: the login check and the subscribe decision
HandleStart ==
    /\ mpPc = "start"
    /\ \E r \in LoginCheck(mpToken) :
         LET should == ShouldSubscribe(mpIn.auto_subscribe,
                                       mpIn.subscribe_threshold, mpIn.episodes)
             passed == r \in {"held", "ok"}
         IN  /\ mpToken' = passed
             /\ mpShould' = (passed /\ should)
             /\ mpLog' = [mpLog EXCEPT
                    !.passedLogin = passed,
                    !.logins = IF r = "held" THEN 0 ELSE 1,
                    !.subCalls = IF passed /\ should THEN 1 ELSE 0]
             /\ CASE r = "refused" ->
                       Return(Result(FALSE, "login_failed", 0, <<>>, 0))
                  [] r = "error" -> mpPc' = "raised" /\ mpOut' = mpOut
                  [] passed /\ should -> mpPc' = "subscribe" /\ mpOut' = mpOut
                  [] OTHER -> AfterSubscribe(FALSE, "unset")
    /\ UNCHANGED <<mpIn, mpSubOk, mpResults, mpIdx>>
    /\ UNCHANGED notMpVars

\* lines 305-327: create_subscribe has returned (success, subscribe_id)
SubscribeReturned(success, id) ==
    /\ mpSubOk' = IF success THEN "yes" ELSE "no"
    /\ IF ReturnsAfterSubscribe(success, mpIn.auto_download)
       THEN IF success
            THEN Return(Result(TRUE, "subscribed", mpIn.season, <<>>, id))
            ELSE Return(Result(FALSE, "subscribe_failed", 0, <<>>, 0))
       ELSE AfterSubscribe(mpShould, IF success THEN "yes" ELSE "no")

\* create_subscribe (lines 139-196): one POST /subscribe and what follows it.
\* A 401 answer logs in again and, when that succeeds, calls create_subscribe
\* once more (line 185).
CreateSubscribeRequest ==
    /\ mpPc = "subscribe"
    /\ \/ \E id \in ServiceIds :
            /\ mpLog' = [mpLog EXCEPT !.subReqs = @ + 1, !.subId = id]
            /\ SubscribeReturned(TRUE, id)
            /\ UNCHANGED mpToken
       \/ /\ mpLog' = [mpLog EXCEPT !.subReqs = @ + 1]
          /\ SubscribeReturned(FALSE, 0)
          /\ UNCHANGED mpToken
       \/ /\ mpLog.expired < MaxAuthExpired
          /\ \E r \in LoginOutcomes :
               /\ mpLog' = [mpLog EXCEPT !.subReqs = @ + 1, !.expired = @ + 1,
                                         !.logins = @ + 1, !.subLogins = @ + 1]
               /\ IF r = "ok"
                  THEN UNCHANGED <<mpToken, mpPc, mpOut, mpSubOk>>
                  ELSE SubscribeReturned(FALSE, 0) /\ UNCHANGED mpToken
    /\ UNCHANGED <<mpIn, mpShould, mpResults, mpIdx>>
    /\ UNCHANGED notMpVars

\* lines 338-367: the loop over the results from position `from` on: the next
\* matching result is handed to add_download_task, or the loop ends
LoopFrom(results, from, log) ==
    LET n == NextMatch(results, from, mpIn.season, mpIn.episodes)
    IN  IF n = 0
        THEN /\ Return(Result(FALSE, "no_resource", 0, <<>>, 0))
             /\ mpIdx' = mpIdx
             /\ mpLog' = log
        ELSE /\ mpPc' = "download"
             /\ mpOut' = mpOut
             /\ mpIdx' = n
             /\ mpLog' = [log EXCEPT !.submitted = Append(@, n),
                                     !.dlReqs = 0, !.dlLogins = 0]

\* search (lines 86-137) under moviepilot_session (lines 36-54), and lines
\* 335-379 of the caller. The request is sent once. An answer whose body is
\* JSON is read whatever its status: without "success" the results are empty.
\* An answer whose body is not JSON raises a ClientResponseError into the
\* session manager, which logs in again on status 401 and then yields a
\* second time: the manager cannot resume the block, and the call raises.
SearchRequest ==
    /\ mpPc = "search"
    /\ LET log == [mpLog EXCEPT !.searchCalls = 1, !.searchReqs = @ + 1]
           failed == Return(Result(FALSE, "search_failed", 0, <<>>, 0))
           raised == Return(Result(FALSE, "search_error", 0, <<>>, 0))
       IN
       \/ \E raw \in RawResults(mpIn.season) :       \* 200, success: true
            LET results == SortBySeeders(raw)
            IN  /\ mpResults' = results
                /\ IF results = <<>>
                   THEN failed /\ mpLog' = log /\ mpIdx' = mpIdx
                   ELSE LoopFrom(results, 1, log)
                /\ UNCHANGED mpToken
       \/ /\ failed                                  \* JSON without success
          /\ mpLog' = log
          /\ UNCHANGED <<mpToken, mpResults, mpIdx>>
       \/ /\ mpLog.expired < MaxAuthExpired          \* 401 with a JSON body
          /\ failed
          /\ mpLog' = [log EXCEPT !.expired = @ + 1, !.searchExpired = TRUE]
          /\ UNCHANGED <<mpToken, mpResults, mpIdx>>
       \/ /\ mpLog.expired < MaxAuthExpired          \* 401, body not JSON
          /\ \E r \in LoginOutcomes :
               /\ raised
               /\ mpLog' = [log EXCEPT !.expired = @ + 1, !.searchExpired = TRUE,
                                       !.logins = @ + 1, !.searchLogins = @ + 1]
          /\ UNCHANGED <<mpToken, mpResults, mpIdx>>
       \/ /\ raised                                  \* any other failure
          /\ mpLog' = log
          /\ UNCHANGED <<mpToken, mpResults, mpIdx>>
    /\ UNCHANGED <<mpIn, mpShould, mpSubOk>>
    /\ UNCHANGED notMpVars

\* add_download_task (lines 198-243) for the result at mpIdx, and lines
\* 352-361 of the caller: one POST /download/add and what follows it. A 401
\* answer logs in again and, when that succeeds, calls add_download_task once
\* more (line 232). A call that returns failure lets the loop go on.
AddDownloadRequest ==
    /\ mpPc = "download"
    /\ LET log == [mpLog EXCEPT !.dlReqs = @ + 1]
       IN
       \/ \E id \in ServiceIds :
            /\ Return(Result(TRUE, "download_added", 0,
                             mpResults[mpIdx].title, id))
            /\ mpLog' = [log EXCEPT !.accepted = @ + 1]
            /\ mpIdx' = mpIdx
       \/ LoopFrom(mpResults, mpIdx + 1, log)
       \/ /\ mpLog.expired < MaxAuthExpired
          /\ \E r \in LoginOutcomes :
               LET relog == [log EXCEPT !.expired = @ + 1, !.logins = @ + 1,
                                        !.dlLogins = @ + 1]
               IN  IF r = "ok"
                   THEN /\ mpLog' = relog
                        /\ UNCHANGED <<mpPc, mpOut, mpIdx>>
                   ELSE LoopFrom(mpResults, mpIdx + 1, relog)
    /\ UNCHANGED <<mpToken, mpIn, mpShould, mpSubOk, mpResults>>
    /\ UNCHANGED notMpVars

\* the dispatcher is not part of the specification
DispatchOff ==
    /\ mpToken = FALSE
    /\ mpIn = [auto_subscribe |-> FALSE, auto_download |-> FALSE,
               subscribe_threshold |-> 0, season |-> 1, episodes |-> <<1>>]
    /\ mpPc = "off"
    /\ mpShould = FALSE
    /\ mpSubOk = "unset"
    /\ mpResults = <<>>
    /\ mpIdx = 0
    /\ mpOut = NoResult
    /\ mpLog = EmptyLog

\* the diff is not part of the specification
DiffOff ==
    /\ dLocal = EmptyMap
    /\ dCanonical = EmptyMap
    /\ dMissing = EmptyMap
    /\ dPc = "off"

(***************************************************************************)
(* The cache record, its file, and the runs that use them        *)
(* (src/utils/helpers.py:138-229, src/main.py:214, 308, 418-419).          *)
(***************************************************************************)
\* the titles (show directories) the cache is asked about
CacheTitles == {1, 2}

\* the records an earlier run may have saved
SavedBefore ==
    {[complete_dirs |->
        [d \in done |-> [checked_at |-> "earlier", tmdb_id |-> CatalogId(d)]],
      tmdb_map |-> [d \in known |-> CatalogId(d)]] :
        <<known, done>> \in
            UNION {{<<k, c>> : c \in SUBSET k} : k \in SUBSET CacheTitles}}

\* the files a run may find at the cache path: none, a saved document, or a
\* damaged one
FilesBefore ==
    {NoFile}
        \cup {SavedDocument(c) : c \in SavedBefore}
        \cup {Truncated(SavedDocument(c), DocumentSize(SavedDocument(c)) - 1) :
                 c \in SavedBefore \ {EmptyCache}}
        \cup {Undecodable(Truncated(SavedDocument(c), 1)) :
                 c \in SavedBefore \ {EmptyCache}}

\* mutant: the reset clears the whole record
ResetRecordWhole(cache) == EmptyCache

\* reset_cache, line 227: cache.complete_dirs = {}
ResetRecord(cache) == [cache EXCEPT !.complete_dirs = EmptyMap]

\* mutant: a failed save leaves the temporary file behind
UnlinkedSkipped(tmp) == tmp

\* atomic_write, lines 185-187: the temporary file after a failure
Unlinked(tmp) == NoFile

\* the caller is back from a cache operation: a run goes on, reset_cache is
\* over
BackTo(who, last) ==
    /\ cPc' = IF who = "run" THEN "run" ELSE "idle"
    /\ cRec' = IF who = "run" THEN cRec ELSE EmptyCache
    /\ cLast' = <<who, last>>

\* atomic_write, line 181: the temporary file is opened for writing; when
\* that fails, lines 185-188 remove the temporary file and raise
SaveOpen(who, cache) ==
    /\ cWho' = who
    /\ cPrev' = cFile
    /\ \/ /\ cTmp' = Truncated(SavedDocument(cache), 0)
          /\ cPc' = "writing"
          /\ cRec' = cache
          /\ cLast' = <<who, "open">>
       \/ /\ cTmp' = Unlinked(cTmp)
          /\ cRec' = IF who = "run" THEN cache ELSE EmptyCache
          /\ cPc' = IF who = "run" THEN "run" ELSE "idle"
          /\ cLast' = <<who, "save_raised">>

\* main_async, line 214: a run starts by loading the cache
CacheLoad ==
    /\ cPc = "idle"
    /\ IF LoadOutcome(cFile) = "raised"
       THEN /\ cLast' = <<"run", "load_raised">>
            /\ UNCHANGED <<cRec, cPc, cBak>>
       ELSE /\ cRec' = LoadCache(cFile)
            /\ cBak' = BackupAfterLoad(cFile, cBak)
            /\ cPc' = "run"
            /\ cLast' = <<"run", "load">>
    /\ cPrev' = cFile
    /\ UNCHANGED <<cFile, cTmp, cWho, cMarked>>
    /\ UNCHANGED notCacheVars

\* CacheData.mark_complete_dir on the record of the run
CacheMark ==
    /\ cPc = "run"
    /\ \E d \in CacheTitles :
         LET id == IF d \in DOMAIN cRec.tmdb_map THEN cRec.tmdb_map[d]
                   ELSE CatalogId(d)
         IN  /\ cRec' = MarkCompleteDir(cRec, d, id)
             /\ cMarked' = cMarked \cup {d}
    /\ cLast' = <<"run", "mark">>
    /\ cPrev' = cFile
    /\ UNCHANGED <<cFile, cTmp, cBak, cPc, cWho>>
    /\ UNCHANGED notCacheVars

\* a title is memoized in the record of the run
CacheAddMapping ==
    /\ cPc = "run"
    /\ \E t \in CacheTitles :
         cRec' = AddTmdbMapping(cRec, t, CatalogId(t))
    /\ cLast' = <<"run", "memoize">>
    /\ cPrev' = cFile
    /\ UNCHANGED <<cFile, cTmp, cBak, cPc, cWho, cMarked>>
    /\ UNCHANGED notCacheVars

\* save_cache(cache) called by the run
CacheSave ==
    /\ cPc = "run"
    /\ SaveOpen("run", cRec)
    /\ UNCHANGED <<cFile, cBak, cMarked>>
    /\ UNCHANGED notCacheVars

\* reset_cache (lines 224-229): load, clear complete_dirs, save
CacheReset ==
    /\ cPc = "idle"
    /\ IF LoadOutcome(cFile) = "raised"
       THEN /\ cLast' = <<"reset", "load_raised">>
            /\ cPrev' = cFile
            /\ UNCHANGED <<cRec, cPc, cBak, cTmp, cWho>>
       ELSE /\ cBak' = BackupAfterLoad(cFile, cBak)
            /\ SaveOpen("reset", ResetRecord(LoadCache(cFile)))
    /\ UNCHANGED <<cFile, cMarked>>
    /\ UNCHANGED notCacheVars

\* line 199: f.write puts the document into the temporary file, pair by
\* pair; a write that fails removes the temporary file and raises
CacheWrite ==
    /\ cPc = "writing"
    /\ LET doc == SavedDocument(cRec)
           n == DocumentSize(cTmp)
       IN  \/ /\ n < DocumentSize(doc)
              /\ cTmp' = Truncated(doc, n + 1)
              /\ UNCHANGED <<cRec, cPc, cLast>>
           \/ /\ n = DocumentSize(doc)          \* the file is closed
              /\ cTmp' = doc
              /\ cPc' = "written"
              /\ UNCHANGED <<cRec, cLast>>
           \/ /\ cTmp' = Unlinked(cTmp)
              /\ BackTo(cWho, "save_raised")
    /\ UNCHANGED <<cFile, cBak, cWho, cPrev, cMarked>>
    /\ UNCHANGED notCacheVars

\* line 184: the temporary file replaces the cache file; a replace that fails
\* removes the temporary file and raises
CacheReplace ==
    /\ cPc = "written"
    /\ \/ /\ cFile' = cTmp
          /\ cTmp' = NoFile
          /\ BackTo(cWho, "saved")
          /\ cMarked' = IF cWho = "reset" THEN {} ELSE cMarked
       \/ /\ cTmp' = Unlinked(cTmp)
          /\ BackTo(cWho, "save_raised")
          /\ UNCHANGED <<cFile, cMarked>>
    /\ UNCHANGED <<cBak, cWho, cPrev>>
    /\ UNCHANGED notCacheVars

\* the process ends: a run is over, or the process is killed while it saves;
\* the files stay as they are
CacheProcessEnds ==
    /\ cPc # "idle"
    /\ cPc' = "idle"
    /\ cRec' = EmptyCache
    /\ cLast' = <<cWho, IF cPc = "run" THEN "end" ELSE "killed">>
    /\ cPrev' = IF cPc = "run" THEN cFile ELSE cPrev
    /\ UNCHANGED <<cFile, cTmp, cBak, cWho, cMarked>>
    /\ UNCHANGED notCacheVars

\* the cache is not part of the specification
CacheOff ==
    /\ cRec = EmptyCache
    /\ cFile = NoFile
    /\ cTmp = NoFile
    /\ cBak = NoFile
    /\ cPc = "off"
    /\ cWho = "run"
    /\ cPrev = NoFile
    /\ cLast = <<"run", "off">>
    /\ cMarked = {}

(***************************************************************************)
(* search_tv_show (src/tmdb/api.py:33-133).  A title is a name with the    *)
(* year of its "(YYYY)" part, 0 when it has none; a candidate has the year *)
(* of its first_air_date, 0 when it has none (None and 0 are both falsy).  *)
(* Years are counted from the first one the model knows.                   *)
(***************************************************************************)
\* extract_year (src/utils/helpers.py:71-76)
ExtractYear(title) == title.year

\* line 60: the title without its year, the query of the search
CleanTitle(title) == [title EXCEPT !.year = 0]

\* abs()
Abs(n) == IF n < 0 THEN 0 - n ELSE n

\* the first index of the set, 0 when it is empty: a loop that returns at the
\* first element it accepts
FirstIndex(S) == IF S = {} THEN 0 ELSE SetMin(S)

\* lines 88-93: the first candidate of the year
ExactMatch(results, year) ==
    FirstIndex({i \in DOMAIN results : results[i].year = year})

\* lines 95-100: the first candidate with a year at most one away
NearMatch(results, year) ==
    FirstIndex({i \in DOMAIN results :
                   results[i].year # 0 /\ Abs(results[i].year - year) <= 1})

\* mutant: a later candidate as close as the best one replaces it
RECURSIVE ClosestMatchLatest(_, _, _, _, _)
ClosestMatchLatest(results, year, i, best_match, closest_diff) ==
    IF i > Len(results)
    THEN best_match
    ELSE LET diff == Abs(results[i].year - year)
         IN  IF results[i].year # 0 /\ diff <= closest_diff
             THEN ClosestMatchLatest(results, year, i + 1, i, diff)
             ELSE ClosestMatchLatest(results, year, i + 1, best_match,
                                     closest_diff)

\* lines 104-111: the loop over the candidates from the i-th on, keeping the
\* one with the least difference of years so far
RECURSIVE ClosestMatch(_, _, _, _, _)
ClosestMatch(results, year, i, best_match, closest_diff) ==
    IF i > Len(results)
    THEN best_match
    ELSE LET diff == Abs(results[i].year - year)
         IN  IF results[i].year # 0 /\ diff < closest_diff
             THEN ClosestMatch(results, year, i + 1, i, diff)
             ELSE ClosestMatch(results, year, i + 1, best_match, closest_diff)

\* lines 86-125: the index of the candidate search_tv_show returns, for a
\* non-empty list of candidates
SelectShow(results, year) ==
    IF year # 0 /\ ExactMatch(results, year) # 0
    THEN ExactMatch(results, year)
    ELSE IF year # 0 /\ NearMatch(results, year) # 0
    THEN NearMatch(results, year)
    ELSE IF year # 0
            /\ ClosestMatch(results, year, 1, 0, InitialClosestDiff) # 0
    THEN ClosestMatch(results, year, 1, 0, InitialClosestDiff)
    ELSE 1

\* mutant: the id is memoized under the title without its year
MemoKeyClean(title) == CleanTitle(title)

\* lines 92, 99, 116, 124: the key of cache.tmdb_map[title] = show.id
MemoKey(title) == title

\* the titles resolved: one name, without a year and with the first year
ResolveTitles == {[name |-> 1, year |-> y] : y \in {0, 1}}

\* the candidates of a search, each with the id of its place in the list and
\* any year or none
CandidateLists ==
    UNION {[1..n -> 0..MaxYear] : n \in 0..MaxCandidates}

\* data["results"] turned into TMDBShow objects (lines 80-84)
Shows(years) == [i \in DOMAIN years |-> [id |-> 300 + i, year |-> years[i]]]

\* what search_tv_show handed back: (id, name), (None, None), or an exception
Resolved(id) == [raised |-> FALSE, id |-> id]
ResolveRaised == [raised |-> TRUE, id |-> 0]

\* lines 45-53: the title is in tmdb_map
SearchHit ==
    /\ sCount < MaxResolves
    /\ \E title \in ResolveTitles :
         /\ CacheHit([tmdb_map |-> sMap], title)
         /\ sTitle' = title
         /\ sRet' = Resolved(sMap[title])
    /\ sAsked' = FALSE
    /\ sBefore' = sMap
    /\ sCount' = sCount + 1
    /\ UNCHANGED <<sMap, sCatalog>>
    /\ UNCHANGED notResolveVars

\* lines 70-73, 127-133: the request fails, or the answer is no 200 or no
\* JSON: MediaProcessError
SearchFails ==
    /\ sCount < MaxResolves
    /\ \E title \in ResolveTitles :
         /\ ~CacheHit([tmdb_map |-> sMap], title)
         /\ sTitle' = title
    /\ sRet' = ResolveRaised
    /\ sAsked' = TRUE
    /\ sBefore' = sMap
    /\ sCount' = sCount + 1
    /\ UNCHANGED <<sMap, sCatalog>>
    /\ UNCHANGED notResolveVars

\* lines 75-125: the catalog answers with its candidates
SearchAnswered ==
    /\ sCount < MaxResolves
    /\ \E title \in ResolveTitles :
         /\ ~CacheHit([tmdb_map |-> sMap], title)
         /\ sTitle' = title
         /\ IF sCatalog = <<>>
            THEN /\ sRet' = Resolved(0)
                 /\ sMap' = sMap
            ELSE LET show == sCatalog[SelectShow(sCatalog, ExtractYear(title))]
                 IN  /\ sRet' = Resolved(show.id)
                     /\ sMap' = MapSet(sMap, MemoKey(title), show.id)
    /\ sAsked' = TRUE
    /\ sBefore' = sMap
    /\ sCount' = sCount + 1
    /\ UNCHANGED sCatalog
    /\ UNCHANGED notResolveVars

\* search_tv_show is not part of the specification
ResolveOff ==
    /\ sMap = EmptyMap
    /\ sCatalog = <<>>
    /\ sTitle = [name |-> 0, year |-> 0]
    /\ sRet = Resolved(0)
    /\ sAsked = FALSE
    /\ sBefore = EmptyMap
    /\ sCount = 0

(***************************************************************************)
(* A run of main_async: its actions.                                       *)
(***************************************************************************)
\* what process_show hands back: its tuple, or an exception
Returned(processed, skipped, has_missing, is_complete) ==
    [raised |-> FALSE, processed |-> processed, skipped |-> skipped,
     has_missing |-> has_missing, is_complete |-> is_complete]

\* an exception leaves process_show
Raised ==
    [raised |-> TRUE, processed |-> 0, skipped |-> 0,
     has_missing |-> FALSE, is_complete |-> FALSE]

\* the state process_show was entered in; Nowhere outside an invocation
Nowhere ==
    [cache |-> EmptyCache, disk |-> NoFile, report |-> <<>>, skiplog |-> <<>>]

\* the show process_show is working on
CurrentShow == rDirs[rIdx]

\* lines 55-59: a show the cache records as complete is skipped
ProcessShowSkip ==
    /\ rPc = "loop"
    /\ ShouldSkip(rCache, CurrentShow, rSpecific)
    /\ rEntry' = [cache |-> rCache, disk |-> rDisk, report |-> rReport,
                  skiplog |-> rSkipLog]
    /\ rRet' = Returned(0, 0, FALSE, FALSE)
    /\ rPc' = "after"
    /\ UNCHANGED <<rDirs, rSpecific, rConfig, rIdx, rCache, rDisk, rReport,
                   rSkipLog, rShow, rFx>>
    /\ UNCHANGED notRunVars

\* lines 61-100: the scan of the show and the parse of its files
ProcessShowScan ==
    /\ rPc = "loop"
    /\ ~ShouldSkip(rCache, CurrentShow, rSpecific)
    /\ rEntry' = [cache |-> rCache, disk |-> rDisk, report |-> rReport,
                  skiplog |-> rSkipLog]
    /\ \/ /\ rFx' = {"scan"}                       \* the backend raises
          /\ rRet' = Returned(0, 0, FALSE, FALSE)
          /\ rPc' = "after"
          /\ rShow' = [rShow EXCEPT !.failed = "storage"]
          /\ UNCHANGED rSkipLog
       \/ \E files \in RunScans :
            LET local == LocalSeasons(files)
                skipped == SkippedCount(files)
            IN  /\ rFx' = IF skipped > 0 THEN {"scan", "skiplog"} ELSE {"scan"}
                /\ rSkipLog' = rSkipLog \o [k \in 1..skipped |-> CurrentShow]
                /\ IF files = <<>>
                   THEN /\ rRet' = Returned(0, 0, FALSE, FALSE)
                        /\ rPc' = "after"
                        /\ rShow' = rShow
                   ELSE IF NoValidFile(local)
                   THEN /\ rRet' = Returned(0, skipped, FALSE, FALSE)
                        /\ rPc' = "after"
                        /\ rShow' = rShow
                   ELSE /\ rRet' = rRet
                        /\ rPc' = "tmdb"
                        /\ rShow' = [rShow EXCEPT !.local = local,
                                        !.valid = ValidCount(files),
                                        !.skipped = skipped]
    /\ UNCHANGED <<rDirs, rSpecific, rConfig, rIdx, rCache, rDisk, rReport>>
    /\ UNCHANGED notRunVars

\* lines 109-133, once search_tv_show has returned tmdb_id: the structure, the
\* diff, and the record of a complete show. `known` is the cache as
\* search_tv_show left it, `searched` the request it made of the catalog.
ReconcileWith(known, tmdb_id, searched) ==
    \/ /\ rCache' = known                 \* no structure, or the request fails
       /\ rRet' = Returned(rShow.valid, rShow.skipped, FALSE, FALSE)
       /\ rPc' = "after"
       /\ rFx' = rFx \cup searched \cup {"structure"}
       /\ rShow' = [rShow EXCEPT !.tmdb_id = tmdb_id, !.failed = "structure"]
       /\ UNCHANGED rDisk
    \/ \E structure \in RunStructures :
         LET missing == ComputeMissing(rShow.local, structure)
             marked == MarkCompleteDir(known, CurrentShow, tmdb_id)
         IN  IF ~HasMissing(missing)
             THEN /\ rCache' = marked
                  /\ rFx' = rFx \cup searched \cup {"structure", "save"}
                  /\ rShow' = [rShow EXCEPT !.tmdb_id = tmdb_id, !.diffed = TRUE]
                  /\ rPc' = "after"
                  /\ \/ /\ rDisk' = SavedDocument(marked)
                        /\ rRet' = Returned(rShow.valid, rShow.skipped, FALSE, TRUE)
                     \/ /\ rDisk' = rDisk            \* the write fails
                        /\ rRet' = Raised
             ELSE /\ rCache' = known
                  /\ rFx' = rFx \cup searched \cup {"structure"}
                  /\ rShow' = [rShow EXCEPT !.tmdb_id = tmdb_id, !.diffed = TRUE,
                                  !.missing = missing,
                                  !.todo = SeasonOrder(missing),
                                  !.result_lines =
                                      <<Line("header", 0, <<>>, "none")>>]
                  /\ rPc' = "dispatch"
                  /\ UNCHANGED <<rDisk, rRet>>

\* lines 102-133: search_tv_show (a cache hit asks nothing of the catalog),
\* then get_tmdb_structure and the diff
ProcessShowCatalog ==
    /\ rPc = "tmdb"
    /\ IF CacheHit(rCache, CurrentShow)
       THEN ReconcileWith(rCache, rCache.tmdb_map[CurrentShow], {})
       ELSE \/ /\ rRet' = Returned(rShow.valid, rShow.skipped, FALSE, FALSE)
               /\ rPc' = "after"                   \* not found, or an error
               /\ rFx' = rFx \cup {"search"}
               /\ rShow' = [rShow EXCEPT !.failed = "search"]
               /\ UNCHANGED <<rCache, rDisk>>
            \/ LET id == CatalogId(CurrentShow)
               IN  ReconcileWith(AddTmdbMapping(rCache, CurrentShow, id), id,
                                 {"search"})
    /\ UNCHANGED <<rDirs, rSpecific, rConfig, rIdx, rReport, rSkipLog, rEntry>>
    /\ UNCHANGED notRunVars

\* lines 145-168: one season of the MissingSet, in ascending order; the
\* dispatcher is called when a remediation flag is set
ProcessShowSeason ==
    /\ rPc = "dispatch"
    /\ rShow.todo # <<>>
    /\ LET season == Head(rShow.todo)
           miss_str == Line("missing", season, rShow.missing[season], "none")
       IN  IF rConfig.auto_subscribe \/ rConfig.auto_download
           THEN \E outcome \in {"success", "failure", "raised"} :
                  /\ rShow' = [rShow EXCEPT !.todo = Remaining(@, outcome),
                                  !.result_lines = Append(@, miss_str),
                                  !.mp_results =
                                      Append(@, ResultLine(season, outcome)),
                                  !.calls = Append(@, [season |-> season,
                                      episodes |-> rShow.missing[season]])]
                  /\ rFx' = rFx \cup {"remediate"}
           ELSE /\ rShow' = [rShow EXCEPT !.todo = Tail(@),
                                  !.result_lines = Append(@, miss_str)]
                /\ rFx' = rFx
    /\ UNCHANGED <<rDirs, rSpecific, rConfig, rIdx, rPc, rCache, rDisk, rReport,
                   rSkipLog, rRet, rEntry>>
    /\ UNCHANGED notRunVars

\* lines 170-178: the block of the show is appended to the report
ProcessShowReport ==
    /\ rPc = "dispatch"
    /\ rShow.todo = <<>>
    /\ rPc' = "after"
    /\ rFx' = rFx \cup {"report"}
    /\ rShow' = [rShow EXCEPT
                    !.result_lines = BlockLines(@, rShow.mp_results)]
    /\ \/ /\ rReport' = Append(rReport, CurrentShow)
          /\ rRet' = Returned(rShow.valid, rShow.skipped, TRUE, FALSE)
       \/ /\ rReport' = rReport                    \* the write fails
          /\ rRet' = Raised
    /\ UNCHANGED <<rDirs, rSpecific, rConfig, rIdx, rCache, rDisk, rSkipLog,
                   rEntry>>
    /\ UNCHANGED notRunVars

\* mutant: the loop is left after a show that processed no file
NextPcUntilIdle(index, dirs, ret) ==
    IF index = Len(dirs) \/ (~ret.raised /\ ret.processed = 0)
    THEN "final"
    ELSE "loop"

\* mutant: an exception of process_show ends main_async
NextPcUncaught(index, dirs, ret) ==
    IF ret.raised THEN "aborted"
    ELSE IF index = Len(dirs) THEN "final" ELSE "loop"

\* lines 264, 287-289: where the loop goes after a show, whatever
\* process_show returned or raised
NextPc(index, dirs, ret) == IF index = Len(dirs) THEN "final" ELSE "loop"

\* lines 271-290: save_cache is reached after a show when process_show
\* returned (an exception goes to the except clause of line 288) and line 285
\* holds
CadenceSave(index, dirs, ret) ==
    /\ ~ret.raised
    /\ index % SaveCadence = 0
    /\ Len(dirs) > SaveCadence

\* lines 277-290: back in the loop of main_async; the cache is saved after
\* every SaveCadence-th show of a run over more than SaveCadence shows, unless
\* process_show raised
MainAfterShow ==
    /\ rPc = "after"
    /\ IF CadenceSave(rIdx, rDirs, rRet)
       THEN \E ok \in BOOLEAN :
              rDisk' = IF ok THEN SavedDocument(rCache) ELSE rDisk
       ELSE rDisk' = rDisk
    /\ rPc' = NextPc(rIdx, rDirs, rRet)
    /\ rIdx' = IF rIdx = Len(rDirs) THEN rIdx ELSE rIdx + 1
    /\ rShow' = NoShow
    /\ rRet' = IF rIdx = Len(rDirs) THEN rRet ELSE Returned(0, 0, FALSE, FALSE)
    /\ rFx' = {}
    /\ rEntry' = Nowhere
    /\ UNCHANGED <<rDirs, rSpecific, rConfig, rCache, rReport, rSkipLog>>
    /\ UNCHANGED notRunVars

\* lines 307-308: the cache is saved at the end of the run
MainFinalSave ==
    /\ rPc = "final"
    /\ rPc' = "end"
    /\ \E ok \in BOOLEAN : rDisk' = IF ok THEN SavedDocument(rCache) ELSE rDisk
    /\ rFx' = {"save"}
    /\ UNCHANGED <<rDirs, rSpecific, rConfig, rIdx, rCache, rReport, rSkipLog,
                   rShow, rRet, rEntry>>
    /\ UNCHANGED notRunVars

\* the run is not part of the specification
RunOff ==
    /\ rDirs = <<>>
    /\ rSpecific = FALSE
    /\ rConfig = [auto_subscribe |-> FALSE, auto_download |-> FALSE]
    /\ rIdx = 0
    /\ rPc = "off"
    /\ rCache = EmptyCache
    /\ rDisk = NoFile
    /\ rReport = <<>>
    /\ rSkipLog = <<>>
    /\ rShow = NoShow
    /\ rRet = Returned(0, 0, FALSE, FALSE)
    /\ rFx = {}
    /\ rEntry = Nowhere

(***************************************************************************)
(* SpecLong: the loop of main_async over a long run. process_show is one   *)
(* step; of the cache only what the cadence is about is kept: which shows  *)
(* have changed the CacheData of the run since it was last written.        *)
(***************************************************************************)
\* the long run is not part of the specification
LongOff ==
    /\ lDirs = <<>>
    /\ lIdx = 0
    /\ lPc = "off"
    /\ lRet = Returned(0, 0, FALSE, FALSE)
    /\ lOldest = 0
    /\ lNewest = 0
    /\ lWriteFailed = FALSE
    /\ lFx = {}

\* get_tmdb_structure is not part of the specification
StructureOff ==
    /\ tSeasons = <<>>
    /\ tPos = 0
    /\ tStructure = EmptyMap
    /\ tPc = "off"
    /\ tLog = <<>>
    /\ tDeclared = EmptyMap

\* parse_filename returns None
Unparsed == [parsed |-> FALSE, season |-> 0, episode |-> 0]

\* parse_filename is not part of the specification
ParseOff ==
    /\ pPath = <<>>
    /\ pKnown = -1
    /\ pOut = Unparsed
    /\ pPc = "off"

\* no listing fails
NoFailure == [dir |-> <<"-">>, kind |-> "none"]

\* an operation of a backend has raised
ScanRaised == [ok |-> FALSE, files |-> {}]

\* an operation of a backend has returned a list
Files(files) == [ok |-> TRUE, files |-> files]

ScanOff ==
    /\ bTree = {}
    /\ bBackend = "off"
    /\ bFail = NoFailure
    /\ bOp = "off"
    /\ bOut = ScanRaised
    /\ bPc = "off"

\* process_show has not been called for the show in the run
NotSeen == [reached |-> FALSE, skipped |-> FALSE, missing |-> EmptyMap]

TwiceOff ==
    /\ wLibrary = <<>>
    /\ wDirs = <<>>
    /\ wSpecific = FALSE
    /\ wRun = 0
    /\ wIdx = 0
    /\ wPc = "off"
    /\ wCache = EmptyCache
    /\ wDisk = NoFile
    /\ wFirst = EmptyCache
    /\ wSeen = <<>>

LaterOff == LongOff /\ StructureOff /\ ParseOff /\ ScanOff /\ TwiceOff

\* the CacheData of the run is written: nothing is left to write
Written(ok, oldest) == IF ok THEN 0 ELSE oldest

\* src/main.py:48-178 as one step of a long run. `outcome` is how process_show
\* ends: "skipped" (line 59), "failed" (lines 74-77, 100, 107, 113, 116),
\* "missing" (line 178), "complete" (line 133) or "raised" (a write of the
\* skip log, line 96, or of the report, line 176, fails); `memoized`: the
\* show was resolved by a search, which changes cache.tmdb_map; `ok`: the
\* save_cache of line 132 goes through
LongProcessShow ==
    /\ lPc = "loop"
    /\ \E outcome \in {"skipped", "failed", "missing", "complete", "raised"},
          memoized \in BOOLEAN, ok \in BOOLEAN :
         LET changed == memoized \/ outcome = "complete"
             saved == outcome = "complete" /\ ok
             oldest == IF changed /\ lOldest = 0 THEN lIdx ELSE lOldest
             newest == IF changed THEN lIdx ELSE lNewest
         IN  /\ outcome = "skipped" => ~memoized
             /\ outcome \in {"missing", "complete"} \/ ok
             /\ lRet' = CASE outcome \in {"skipped", "failed"} ->
                                Returned(0, 0, FALSE, FALSE)
                           [] outcome = "missing" -> Returned(1, 0, TRUE, FALSE)
                           [] outcome = "complete" /\ ok ->
                                Returned(1, 0, FALSE, TRUE)
                           [] OTHER -> Raised
             /\ lOldest' = Written(saved, oldest)
             /\ lNewest' = Written(saved, newest)
             /\ lWriteFailed' = (lWriteFailed \/ (outcome = "complete" /\ ~ok))
    /\ lPc' = "after"
    /\ lFx' = {}
    /\ UNCHANGED <<lDirs, lIdx>>
    /\ UNCHANGED notLongVars

\* lines 277-290 of a long run: the cadence save and the next show
LongAfterShow ==
    /\ lPc = "after"
    /\ IF CadenceSave(lIdx, lDirs, lRet)
       THEN \E ok \in BOOLEAN :
              /\ lOldest' = Written(ok, lOldest)
              /\ lNewest' = Written(ok, lNewest)
              /\ lWriteFailed' = (lWriteFailed \/ ~ok)
              /\ lFx' = {"save"}
       ELSE /\ lFx' = {}
            /\ UNCHANGED <<lOldest, lNewest, lWriteFailed>>
    /\ lPc' = NextPc(lIdx, lDirs, lRet)
    /\ lIdx' = IF lIdx = Len(lDirs) THEN lIdx ELSE lIdx + 1
    /\ UNCHANGED <<lDirs, lRet>>
    /\ UNCHANGED notLongVars

\* lines 307-308 of a long run
LongFinalSave ==
    /\ lPc = "final"
    /\ lPc' = "end"
    /\ \E ok \in BOOLEAN :
         /\ lOldest' = Written(ok, lOldest)
         /\ lNewest' = Written(ok, lNewest)
         /\ lWriteFailed' = (lWriteFailed \/ ~ok)
    /\ lFx' = {"save"}
    /\ UNCHANGED <<lDirs, lIdx, lRet>>
    /\ UNCHANGED notLongVars

\* lines 240-262: a library of up to MaxLongRun shows
InitLong ==
    /\ lDirs \in {[k \in 1..n |-> k] : n \in 1..MaxLongRun}
    /\ lIdx = 1
    /\ lPc = "loop"
    /\ lRet = Returned(0, 0, FALSE, FALSE)
    /\ lOldest = 0
    /\ lNewest = 0
    /\ lWriteFailed = FALSE
    /\ lFx = {}
    /\ DiffOff
    /\ DispatchOff
    /\ RunOff
    /\ CacheOff
    /\ ResolveOff
    /\ StructureOff
    /\ ParseOff
    /\ ScanOff
    /\ TwiceOff

NextLong ==
    \/ LongProcessShow
    \/ LongAfterShow
    \/ LongFinalSave

SpecLong == InitLong /\ [][NextLong]_vars

(***************************************************************************)
(* SpecStructure: get_tmdb_structure (src/tmdb/api.py:136-190), request by *)
(* request.                                                                *)
(***************************************************************************)
\* the season lists a show may declare: seasons 0..MaxSeason, each at most
\* once, in any order
RECURSIVE SeasonLists(_)
SeasonLists(S) ==
    {<<>>} \cup UNION {{<<n>> \o rest : rest \in SeasonLists(S \ {n})} : n \in S}

\* mutant: the specials are fetched like any season
SkipSeasonNever(snum) == FALSE

\* lines 167-168: the specials are skipped
SkipSeason(snum) == snum = 0

\* lines 172-178, 183-190: what the request for a season can come to: the
\* episode list ("ok"), a status other than 200 ("status"), a connection
\* error or timeout ("error"), a body that is not the JSON expected
\* ("malformed")
SeasonAnswers == {"ok", "status", "error", "malformed"}

\* lines 173-175: the answers the loop goes on after
Tolerated(answer) == answer \in {"ok", "status"}

\* lines 156-163: the request for the show; a status other than 200 or an
\* exception raises MediaProcessError
StructureRequest ==
    /\ tPc = "start"
    /\ \/ /\ tPc' = "raised"
          /\ UNCHANGED <<tSeasons, tPos>>
       \/ /\ tSeasons' \in SeasonLists(0..MaxSeason)
          /\ tPos' = 1
          /\ tPc' = "seasons"
    /\ UNCHANGED <<tStructure, tLog, tDeclared>>
    /\ UNCHANGED notStructureVars

\* lines 165-179: one season of the loop
SeasonRequest ==
    /\ tPc = "seasons"
    /\ tPos <= Len(tSeasons)
    /\ LET snum == tSeasons[tPos]
       IN  IF SkipSeason(snum)
           THEN /\ tLog' = Append(tLog, "skipped")
                /\ tPc' = "seasons"
                /\ UNCHANGED <<tStructure, tDeclared>>
           ELSE \E answer \in SeasonAnswers, episodes \in ListsOver(EpisodeIds) :
                  /\ tLog' = Append(tLog, answer)
                  /\ tPc' = IF Tolerated(answer) THEN "seasons" ELSE "raised"
                  /\ tDeclared' = MapSet(tDeclared, snum, episodes)
                  /\ IF answer = "ok"
                     THEN tStructure' = MapSet(tStructure, snum, episodes)
                     ELSE UNCHANGED tStructure
    /\ tPos' = tPos + 1
    /\ UNCHANGED tSeasons
    /\ UNCHANGED notStructureVars

\* line 181: return structure
StructureReturn ==
    /\ tPc = "seasons"
    /\ tPos > Len(tSeasons)
    /\ tPc' = "returned"
    /\ UNCHANGED <<tSeasons, tPos, tStructure, tLog, tDeclared>>
    /\ UNCHANGED notStructureVars

\* line 147: structure = defaultdict(list)
InitStructure ==
    /\ tSeasons = <<>>
    /\ tPos = 0
    /\ tStructure = EmptyMap
    /\ tPc = "start"
    /\ tLog = <<>>
    /\ tDeclared = EmptyMap
    /\ DiffOff
    /\ DispatchOff
    /\ RunOff
    /\ CacheOff
    /\ ResolveOff
    /\ LongOff
    /\ ParseOff
    /\ ScanOff
    /\ TwiceOff

NextStructure ==
    \/ StructureRequest
    \/ SeasonRequest
    \/ StructureReturn

SpecStructure == InitStructure /\ [][NextStructure]_vars

(***************************************************************************)
(* SpecParse: parse_filename (src/utils/helpers.py:93-136) as a function   *)
(* of the characters of a path. Each pattern is matched as re.search       *)
(* matches it: at the leftmost position it matches at, greedy groups as    *)
(* long as the rest of the pattern allows.                                 *)
(***************************************************************************)
\* re.IGNORECASE, for the letters the model's file names have in upper case
Lower(c) == CASE c = "S" -> "s" [] c = "E" -> "e" [] c = "X" -> "x" [] OTHER -> c

\* the character at position i, "" past the end
At(name, i) == IF i \in DOMAIN name THEN name[i] ELSE ""

\* \d
IsDigit(c) == \E k \in DOMAIN Digits : Digits[k] = c

\* int() of a digit
DigitValue(c) == (CHOOSE k \in DOMAIN Digits : Digits[k] = c) - 1

\* the number of digits in a row from position i
RECURSIVE DigitRun(_, _)
DigitRun(name, i) ==
    IF IsDigit(At(name, i)) THEN 1 + DigitRun(name, i + 1) ELSE 0

\* int() of the n digits from position i, n = 1 or 2
Number(name, i, n) ==
    IF n = 1 THEN DigitValue(name[i])
    ELSE 10 * DigitValue(name[i]) + DigitValue(name[i + 1])

\* mutant: a group takes one digit
GreedyShort(n) == 1

\* (\d{1,2}) followed by anything: as many digits of a run of n as it may take
Greedy(n) == IF n > 2 THEN 2 ELSE n

\* \s
IsSpace(c) == c = " "

\* \s*: the number of spaces in a row from position i
RECURSIVE SpaceRun(_, _)
SpaceRun(name, i) ==
    IF IsSpace(At(name, i)) THEN 1 + SpaceRun(name, i + 1) ELSE 0

\* [.\s_]
IsSep(c) == c = "." \/ IsSpace(c) \/ c = "_"

\* (?=\.|$|\s+) at position i
Ahead(name, i) == i > Len(name) \/ At(name, i) = "." \/ IsSpace(At(name, i))

\* a word of a pattern at position i, in any case
WordAt(name, i, word) ==
    \A k \in DOMAIN word : Lower(At(name, i + k - 1)) = word[k]

SeasonWord == <<"s", "e", "a", "s", "o", "n">>
EpisodeWord == <<"e", "p", "i", "s", "o", "d", "e">>

\* what a match yields: int(match.group(1)), int(match.group(2)); an
\* episode-only pattern has the episode alone
Found(season, episode) == [parsed |-> TRUE, season |-> season, episode |-> episode]

\* mutant: the compact digits are tried first
PatternsCompactFirst ==
    <<"Compact", "SxxEyy", "SeasonEpisode", "NxM", "Localized">>

\* the patterns of lines 106-113, by name, in the order of the list
Patterns == <<"SxxEyy", "SeasonEpisode", "NxM", "Localized", "Compact">>

\* the patterns of lines 124-129
EpisodePatterns == <<"E", "Episode", "LocalizedEpisode", "Bare">>

\* the match of a pattern that starts at position i, Unparsed when there is
\* none
RECURSIVE MatchAt(_, _, _)
MatchAt(pattern, name, i) ==
    CASE pattern = "SxxEyy" ->
           \* [sS](\d{1,2})[eE](\d{1,2})
           LET r == DigitRun(name, i + 1)
               q == DigitRun(name, i + 2 + r)
           IN  IF /\ Lower(At(name, i)) = "s"
                  /\ r \in {1, 2}
                  /\ Lower(At(name, i + 1 + r)) = "e"
                  /\ q >= 1
               THEN Found(Number(name, i + 1, r),
                          Number(name, i + 2 + r, Greedy(q)))
               ELSE Unparsed
      [] pattern = "SeasonEpisode" ->
           \* [sS]eason\s*(\d{1,2}).*?[eE]pisode\s*(\d{1,2})
           LET j == i + Len(SeasonWord) + SpaceRun(name, i + Len(SeasonWord))
               r == Greedy(DigitRun(name, j))
               later == {k \in (j + r)..Len(name) :
                            MatchAt("Episode", name, k).parsed}
           IN  IF WordAt(name, i, SeasonWord) /\ r >= 1 /\ later # {}
               THEN Found(Number(name, j, r),
                          MatchAt("Episode", name, SetMin(later)).episode)
               ELSE Unparsed
      [] pattern = "NxM" ->
           \* (\d{1,2})x(\d{1,2})
           LET r == IF IsDigit(At(name, i + 1)) THEN 2 ELSE 1
               q == DigitRun(name, i + r + 1)
           IN  IF /\ IsDigit(At(name, i))
                  /\ Lower(At(name, i + r)) = "x"
                  /\ q >= 1
               THEN Found(Number(name, i, r), Number(name, i + r + 1, Greedy(q)))
               ELSE Unparsed
      [] pattern = "Localized" ->
           \* [U+7B2C](\d{1,2})[U+5B63].*?[U+7B2C](\d{1,2})[U+96C6]
           LET r == DigitRun(name, i + 1)
               later == {k \in (i + 2 + r)..Len(name) :
                            MatchAt("LocalizedEpisode", name, k).parsed}
           IN  IF /\ At(name, i) = "U+7B2C"
                  /\ r \in {1, 2}
                  /\ At(name, i + 1 + r) = "U+5B63"
                  /\ later # {}
               THEN Found(Number(name, i + 1, r),
                          MatchAt("LocalizedEpisode", name, SetMin(later)).episode)
               ELSE Unparsed
      [] pattern = "Compact" ->
           \* [.\s_](\d{1,2})(\d{2})[.\s_]
           LET r == DigitRun(name, i + 1)
           IN  IF /\ IsSep(At(name, i))
                  /\ r \in {3, 4}
                  /\ IsSep(At(name, i + 1 + r))
               THEN Found(Number(name, i + 1, r - 2), Number(name, i + r - 1, 2))
               ELSE Unparsed
      [] pattern = "E" ->
           \* [eE](\d{1,2})
           LET q == DigitRun(name, i + 1)
           IN  IF Lower(At(name, i)) = "e" /\ q >= 1
               THEN Found(0, Number(name, i + 1, Greedy(q)))
               ELSE Unparsed
      [] pattern = "Episode" ->
           \* [eE]pisode\s*(\d{1,2})
           LET j == i + Len(EpisodeWord) + SpaceRun(name, i + Len(EpisodeWord))
               q == DigitRun(name, j)
           IN  IF WordAt(name, i, EpisodeWord) /\ q >= 1
               THEN Found(0, Number(name, j, Greedy(q)))
               ELSE Unparsed
      [] pattern = "LocalizedEpisode" ->
           \* [U+7B2C](\d{1,2})[U+96C6]
           LET q == DigitRun(name, i + 1)
           IN  IF At(name, i) = "U+7B2C" /\ q \in {1, 2} /\ At(name, i + 1 + q) = "U+96C6"
               THEN Found(0, Number(name, i + 1, q))
               ELSE Unparsed
      [] pattern = "Bare" ->
           \* (\d{1,2})(?=\.|$|\s+)
           LET q == IF IsDigit(At(name, i + 1)) THEN 2 ELSE 1
           IN  IF IsDigit(At(name, i)) /\ Ahead(name, i + q)
               THEN Found(0, Number(name, i, q))
               ELSE Unparsed

\* re.search(pattern, filename, re.IGNORECASE): the match at the leftmost
\* position that has one
Search(pattern, name) ==
    LET starts == {i \in DOMAIN name : MatchAt(pattern, name, i).parsed}
    IN  IF starts = {} THEN Unparsed ELSE MatchAt(pattern, name, SetMin(starts))

\* lines 115-120, 131-134: the first pattern of the list that matches
RECURSIVE FirstMatch(_, _)
FirstMatch(patterns, name) ==
    IF patterns = <<>> THEN Unparsed
    ELSE LET match == Search(Head(patterns), name)
         IN  IF match.parsed THEN match ELSE FirstMatch(Tail(patterns), name)

\* line 104: filepath.split('/')[-1]
FileName(filepath) ==
    LET slashes == {i \in DOMAIN filepath : filepath[i] = "/"}
    IN  IF slashes = {} THEN filepath
        ELSE IF SetMax(slashes) = Len(filepath) THEN <<>>
        ELSE SubSeq(filepath, SetMax(slashes) + 1, Len(filepath))

\* parse_filename; known_season is -1 for None
ParseFilename(filepath, known_season) ==
    LET filename == FileName(filepath)
        match == FirstMatch(Patterns, filename)
        episode == FirstMatch(EpisodePatterns, filename)
    IN  IF match.parsed THEN match
        ELSE IF known_season # -1 /\ episode.parsed
        THEN Found(known_season, episode.episode)
        ELSE Unparsed

\* a character outside ASCII is written as its code point: U+7B2C, U+5B63
\* and U+96C6 are the characters of the localized patterns (lines 111, 127)

\* what the paths of the model are made of: 
\* nothing; a separator; the token, two digits each; the token in lower
\* case, one digit each; the token with numbers of two digits; the token
\* of an episode 0; NxM; compact digits between separators; the verbose
\* form; the localized form; an episode alone; a verbose episode alone; a
\* localized episode alone; a bare number; an extension; a directory with
\* a token in its name
Fragments ==
    {<<>>,
     <<".">>,
     <<"S", "0", "1", "E", "0", "2">>,
     <<"s", "3", "e", "4">>,
     <<"S", "1", "0", "E", "1", "1">>,
     <<"S", "0", "1", "E", "0", "0">>,
     <<"1", "x", "0", "5">>,
     <<".", "1", "0", "2", ".">>,
     <<"S", "e", "a", "s", "o", "n", " ", "2", " ", "E", "p", "i", "s", "o", "d", "e", " ", "6">>,
     <<"U+7B2C", "3", "U+5B63", "U+7B2C", "7", "U+96C6">>,
     <<"E", "0", "8">>,
     <<"E", "p", "i", "s", "o", "d", "e", " ", "9">>,
     <<"U+7B2C", "4", "U+96C6">>,
     <<"1", "2">>,
     <<".", "m", "k", "v">>,
     <<"s", "9", "e", "9", "/">>}

\* the paths of MaxFragments fragments
RECURSIVE Paths(_)
Paths(n) ==
    IF n = 0 THEN {<<>>}
    ELSE {f \o rest : f \in Fragments, rest \in Paths(n - 1)}

\* the season of the enclosing directory (src/main.py:84), -1 for None
KnownSeasons == {-1, 0, 2}

\* one call of parse_filename
Parse ==
    /\ pPc = "start"
    /\ pOut' = ParseFilename(pPath, pKnown)
    /\ pPc' = "done"
    /\ UNCHANGED <<pPath, pKnown>>
    /\ UNCHANGED notParseVars

InitParse ==
    /\ pPath \in Paths(MaxFragments)
    /\ pKnown \in KnownSeasons
    /\ pOut = Unparsed
    /\ pPc = "start"
    /\ DiffOff
    /\ DispatchOff
    /\ RunOff
    /\ CacheOff
    /\ ResolveOff
    /\ LongOff
    /\ StructureOff
    /\ ScanOff
    /\ TwiceOff

NextParse == Parse

SpecParse == InitParse /\ [][NextParse]_vars

(***************************************************************************)
(* The storage backends (src/storage).  The tree of a show is the set of   *)
(* its files, each the path of names from the show's directory to the      *)
(* file.  A directory is listed by one request; bFail names the directory  *)
(* whose request fails, and the form of the failure.  The list a backend   *)
(* returns is modelled as the set of its entries.                          *)
(***************************************************************************)
\* names of directories: one that extract_season_from_dirname gives a season
\* for, one it gives None for
DirNames == {"Season 1", "extras"}

\* names of files: one with an extension of VIDEO_EXTENSIONS, one without
FileNames == {"a.mkv", "b.nfo"}

\* extract_season_from_dirname (src/utils/helpers.py:79-85); -1: None
ExtractSeasonFromDirname(dirname) ==
    CASE dirname = "Season 1" -> 1
      [] OTHER -> -1

\* is_video_file (src/utils/helpers.py:87-90)
IsVideoFile(filename) == filename = "a.mkv"

\* entry.is_dir(), item.is_dir, item["IsDir"]
IsDir(name) == name \in DirNames

\* the names a listing of directory dir holds
Entries(tree, dir) ==
    {q[Len(dir) + 1] :
        q \in {r \in tree : Len(r) > Len(dir) /\ SubSeq(r, 1, Len(dir)) = dir}}

\* the request that lists directory dir fails
Fails(fail, dir) == fail.dir = dir

\* the entries of the returned list for the video files of a listing
VideoEntries(tree, dir, season) ==
    {[path |-> dir \o <<n>>, season |-> season] :
        n \in {e \in Entries(tree, dir) : ~IsDir(e) /\ IsVideoFile(e)}}

\* the results of the calls made for a set of directories: one that raised, if
\* any did, else every file returned
Gather(results) ==
    IF \E r \in results : ~r.ok
    THEN ScanRaised
    ELSE Files(UNION {r.files : r \in results})

\* scan_season_directory of LocalStorage (src/storage/local.py:131-140) and of
\* AlistStorage (src/storage/alist.py:212-220): a failing listing raises
ScanSeasonDirectory(tree, dir, season, fail) ==
    IF Fails(fail, dir)
    THEN ScanRaised
    ELSE Files(VideoEntries(tree, dir, season))

\* scan_directory of LocalStorage (src/storage/local.py:111-129) and of
\* AlistStorage (src/storage/alist.py:192-210)
RECURSIVE ScanDirectory(_, _, _)
ScanDirectory(tree, dir, fail) ==
    IF Fails(fail, dir)
    THEN ScanRaised
    ELSE Gather(
           {Files(VideoEntries(tree, dir, -1))}
           \cup
           {IF ExtractSeasonFromDirname(d) # -1
            THEN ScanSeasonDirectory(tree, dir \o <<d>>,
                                     ExtractSeasonFromDirname(d), fail)
            ELSE ScanDirectory(tree, dir \o <<d>>, fail) :
               d \in {e \in Entries(tree, dir) : IsDir(e)}})

\* LocalStorage.get_directory_structure (src/storage/local.py:93-146)
LocalStructure(tree, fail) == ScanDirectory(tree, <<>>, fail)

\* AlistStorage.get_directory_structure (src/storage/alist.py:178-226)
AlistStructure(tree, fail) == ScanDirectory(tree, <<>>, fail)

\* WebDAVStorage.list_directory (src/storage/webdav.py:238-258): the names of
\* the listing; status 404 gives the empty list, any other failure raises
WebDAVListDirectory(tree, dir, fail) ==
    IF ~Fails(fail, dir) THEN Files(Entries(tree, dir))
    ELSE IF fail.kind = "notfound" THEN Files({})
    ELSE ScanRaised

\* WebDAVStorage.get_directory_structure (src/storage/webdav.py:339-391): the
\* season directories of the show's directory and its own video files
WebDAVStructure(tree, fail) ==
    LET items == WebDAVListDirectory(tree, <<>>, fail)
        season_dirs ==
            {d \in items.files : IsDir(d) /\ ExtractSeasonFromDirname(d) # -1}
        regular_files == {f \in items.files : ~IsDir(f) /\ IsVideoFile(f)}
        SeasonItems(d) == WebDAVListDirectory(tree, <<d>>, fail)
    IN  IF ~items.ok THEN ScanRaised
        ELSE Gather(
               {Files({[path |-> <<f>>, season |-> -1] : f \in regular_files})}
               \cup
               {IF ~SeasonItems(d).ok THEN ScanRaised
                ELSE Files({[path |-> <<d, f>>,
                             season |-> ExtractSeasonFromDirname(d)] :
                              f \in {g \in SeasonItems(d).files :
                                        ~IsDir(g) /\ IsVideoFile(g)}}) :
                   d \in season_dirs})

\* RcloneStorage._get_season_files (src/storage/rclone.py:148-181): a failing
\* listing gives the empty list
RcloneSeasonFiles(tree, dir, season, fail) ==
    IF Fails(fail, dir) THEN {} ELSE VideoEntries(tree, dir, season)

\* RcloneStorage._get_regular_files (src/storage/rclone.py:183-214): the video
\* files of the one directory; a failing listing gives the empty list
RcloneRegularFiles(tree, dir, fail) ==
    IF Fails(fail, dir) THEN {} ELSE VideoEntries(tree, dir, -1)

\* RcloneStorage.get_directory_structure (src/storage/rclone.py:97-146)
RcloneStructure(tree, fail) ==
    IF Fails(fail, <<>>)
    THEN ScanRaised
    ELSE Files(
           VideoEntries(tree, <<>>, -1)
           \cup
           UNION {IF ExtractSeasonFromDirname(d) # -1
                  THEN RcloneSeasonFiles(tree, <<d>>,
                                         ExtractSeasonFromDirname(d), fail)
                  ELSE RcloneRegularFiles(tree, <<d>>, fail) :
                     d \in {e \in Entries(tree, <<>>) : IsDir(e)}})

\* the storage types of StorageType (src/storage/factory.py:22-43)
Backends == {"local", "webdav", "rclone", "alist"}

\* get_directory_structure of the backend get_storage_backend returns
GetDirectoryStructureOf(backend, tree, fail) ==
    CASE backend = "local" -> LocalStructure(tree, fail)
      [] backend = "webdav" -> WebDAVStructure(tree, fail)
      [] backend = "rclone" -> RcloneStructure(tree, fail)
      [] backend = "alist" -> AlistStructure(tree, fail)

\* list_directories of the backends (src/storage/local.py:31-54,
\* webdav.py:104-151, rclone.py:46-53, alist.py:129-147): the directories of
\* the listing; WebDAV answers status 404 with the empty list
ListDirectoriesOf(backend, tree, fail) ==
    IF ~Fails(fail, <<>>)
    THEN Files({e \in Entries(tree, <<>>) : IsDir(e)})
    ELSE IF backend = "webdav" /\ fail.kind = "notfound"
    THEN Files({})
    ELSE ScanRaised

\* storage.get_directory_structure(dir_name) (src/main.py:71)
GetDirectoryStructure ==
    /\ bPc = "start"
    /\ bOp = "scan"
    /\ bOut' = GetDirectoryStructureOf(bBackend, bTree, bFail)
    /\ bPc' = "done"
    /\ UNCHANGED <<bTree, bBackend, bFail, bOp>>
    /\ UNCHANGED notScanVars

\* storage.list_directories() (src/main.py:241)
ListDirectories ==
    /\ bPc = "start"
    /\ bOp = "list"
    /\ bOut' = ListDirectoriesOf(bBackend, bTree, bFail)
    /\ bPc' = "done"
    /\ UNCHANGED <<bTree, bBackend, bFail, bOp>>
    /\ UNCHANGED notScanVars

\* the paths of depth directories and a file
RECURSIVE PathsBelow(_)
PathsBelow(depth) ==
    IF depth = 0
    THEN {<<f>> : f \in FileNames}
    ELSE {<<d>> \o q : d \in DirNames, q \in PathsBelow(depth - 1)}

\* every path of a file below at most MaxDepth directories
AllPaths == UNION {PathsBelow(depth) : depth \in 0..MaxDepth}

\* the trees of at most MaxFiles files
RECURSIVE TreesOf(_)
TreesOf(n) ==
    IF n = 0
    THEN {{}}
    ELSE TreesOf(n - 1) \cup
         {t \cup {q} : t \in TreesOf(n - 1), q \in AllPaths}

\* the directories of a tree, the show's directory among them
Directories(tree) ==
    UNION {{SubSeq(q, 1, k) : k \in 0..(Len(q) - 1)} : q \in tree}

\* the forms of a failing request
FailureKinds == {"auth", "notfound", "malformed"}

\* any tree of the show, any backend, either operation, and no failing request
\* or one for a directory of the tree
InitScan ==
    /\ bTree \in TreesOf(MaxFiles)
    /\ bBackend \in Backends
    /\ bOp \in {"list", "scan"}
    /\ bFail \in {NoFailure} \cup
                 {[dir |-> d, kind |-> k] :
                     d \in Directories(bTree) \cup {<<>>}, k \in FailureKinds}
    /\ bOut = ScanRaised
    /\ bPc = "start"
    /\ DiffOff
    /\ DispatchOff
    /\ RunOff
    /\ CacheOff
    /\ ResolveOff
    /\ LongOff
    /\ StructureOff
    /\ ParseOff
    /\ TwiceOff

NextScan ==
    \/ GetDirectoryStructure
    \/ ListDirectories

SpecScan == InitScan /\ [][NextScan]_vars

(***************************************************************************)
(* SpecTwice: main_async run twice in succession over the same library and *)
(* catalog, with AUTO_SUBSCRIBE and AUTO_DOWNLOAD off and no request or    *)
(* write that fails.  process_show is one step.                            *)
(***************************************************************************)
\* what a show holds and what the catalog has for it: no file that parses;
\* every episode of the catalog; one episode of a longer catalog; files of a
\* show the catalog does not know
ShowKinds ==
    {[files |-> ScanOf(0, 1, 1), found |-> TRUE,
      structure |-> Structure(1, MaxEpisode)],
     [files |-> ScanOf(1, MaxEpisode, 0), found |-> TRUE,
      structure |-> Structure(1, MaxEpisode)],
     [files |-> ScanOf(1, 1, 0), found |-> TRUE,
      structure |-> Structure(MaxSeason, MaxEpisode)],
     [files |-> ScanOf(1, 1, 0), found |-> FALSE,
      structure |-> Structure(1, MaxEpisode)]}

\* time.strftime of a run (src/utils/helpers.py:155)
CheckedAt(run) == IF run = 1 THEN "first" ELSE "second"

\* CacheData.mark_complete_dir at the time `now`
MarkCompleteDirAt(cache, dir_name, tmdb_id, now) ==
    [cache EXCEPT !.complete_dirs =
        MapSet(@, dir_name, [checked_at |-> now, tmdb_id |-> tmdb_id])]

\* process_show was called for the show and went as far as the diff
Seen(missing) == [reached |-> TRUE, skipped |-> FALSE, missing |-> missing]

\* process_show returned before the diff: the show was skipped as complete
\* (lines 55-59), or it has no parsed file or no catalog entry
SeenSkipped == [reached |-> TRUE, skipped |-> TRUE, missing |-> EmptyMap]
SeenWithoutDiff == [reached |-> TRUE, skipped |-> FALSE, missing |-> EmptyMap]

\* process_show (src/main.py:47-178) for the show at wIdx, with the
\* remediation flags off: the skip of a complete show, the scan, the search
\* (memoized), the structure, the diff, and the record of a complete show
\* with its save
TwiceProcessShow ==
    /\ wPc = "loop"
    /\ LET dir_name == wDirs[wIdx]
           show == wLibrary[dir_name]
           local == LocalSeasons(show.files)
           known == IF CacheHit(wCache, dir_name)
                    THEN wCache
                    ELSE AddTmdbMapping(wCache, dir_name, CatalogId(dir_name))
           tmdb_id == known.tmdb_map[dir_name]
           missing == ComputeMissing(local, show.structure)
           marked == MarkCompleteDirAt(known, dir_name, tmdb_id, CheckedAt(wRun))
           note(seen) == wSeen' = [wSeen EXCEPT ![wRun][dir_name] = seen]
       IN  IF ShouldSkip(wCache, dir_name, wSpecific)
           THEN note(SeenSkipped) /\ UNCHANGED <<wCache, wDisk>>
           ELSE IF NoValidFile(local)
           THEN note(SeenWithoutDiff) /\ UNCHANGED <<wCache, wDisk>>
           ELSE IF ~CacheHit(wCache, dir_name) /\ ~show.found
           THEN note(SeenWithoutDiff) /\ UNCHANGED <<wCache, wDisk>>
           ELSE IF ~HasMissing(missing)
           THEN /\ note(Seen(missing))
                /\ wCache' = marked
                /\ wDisk' = SavedDocument(marked)
           ELSE /\ note(Seen(missing))
                /\ wCache' = known
                /\ UNCHANGED wDisk
    /\ wPc' = IF wIdx = Len(wDirs) THEN "final" ELSE "loop"
    /\ wIdx' = IF wIdx = Len(wDirs) THEN wIdx ELSE wIdx + 1
    /\ UNCHANGED <<wLibrary, wDirs, wSpecific, wRun, wFirst>>
    /\ UNCHANGED notTwiceVars

\* lines 307-308: the cache is saved at the end of the run
TwiceFinalSave ==
    /\ wPc = "final"
    /\ wDisk' = SavedDocument(wCache)
    /\ wFirst' = IF wRun = 1 THEN wCache ELSE wFirst
    /\ wPc' = "end"
    /\ UNCHANGED <<wLibrary, wDirs, wSpecific, wRun, wIdx, wCache, wSeen>>
    /\ UNCHANGED notTwiceVars

\* lines 205-259 of the second run: the cache is loaded from the file the
\* first run left, and the loop starts over the same shows
TwiceRunAgain ==
    /\ wPc = "end"
    /\ wRun = 1
    /\ wRun' = 2
    /\ wCache' = LoadCache(wDisk)
    /\ wIdx' = 1
    /\ wPc' = "loop"
    /\ UNCHANGED <<wLibrary, wDirs, wSpecific, wDisk, wFirst, wSeen>>
    /\ UNCHANGED notTwiceVars

\* any library, the cache file an earlier run left (or none), and a pair of
\* runs over every show or over one show asked for
InitTwice ==
    /\ wLibrary \in [ShowIds -> ShowKinds]
    /\ wDisk \in {NoFile} \cup {SavedDocument(c) : c \in EarlierCaches}
    /\ wCache = LoadCache(wDisk)
    /\ wSpecific \in BOOLEAN
    /\ wDirs \in IF wSpecific THEN {<<d>> : d \in ShowIds}
                 ELSE {[k \in 1..MaxShows |-> k]}
    /\ wRun = 1
    /\ wIdx = 1
    /\ wPc = "loop"
    /\ wFirst = EmptyCache
    /\ wSeen = [run \in 1..2 |-> [d \in ShowIds |-> NotSeen]]
    /\ DiffOff
    /\ DispatchOff
    /\ RunOff
    /\ CacheOff
    /\ ResolveOff
    /\ LongOff
    /\ StructureOff
    /\ ParseOff
    /\ ScanOff

NextTwice ==
    \/ TwiceProcessShow
    \/ TwiceFinalSave
    \/ TwiceRunAgain

SpecTwice == InitTwice /\ [][NextTwice]_vars

\* lines 205-259: the run starts with the cache file an earlier run left (or
\* none), over every show of the library or over the one show asked for
Init ==
    /\ rDisk \in {NoFile} \cup {SavedDocument(c) : c \in EarlierCaches}
    /\ rCache = LoadCache(rDisk)
    /\ rSpecific \in BOOLEAN
    /\ rDirs \in IF rSpecific THEN {<<d>> : d \in ShowIds}
                 ELSE {[k \in 1..MaxShows |-> k]}
    /\ rConfig \in [auto_subscribe : BOOLEAN, auto_download : BOOLEAN]
    /\ rIdx = 1
    /\ rPc = "loop"
    /\ rReport = <<>>
    /\ rSkipLog = <<>>
    /\ rShow = NoShow
    /\ rRet = Returned(0, 0, FALSE, FALSE)
    /\ rFx = {}
    /\ rEntry = Nowhere
    /\ DiffOff
    /\ DispatchOff
    /\ CacheOff
    /\ ResolveOff
    /\ LaterOff

Next ==
    \/ ProcessShowSkip
    \/ ProcessShowScan
    \/ ProcessShowCatalog
    \/ ProcessShowSeason
    \/ ProcessShowReport
    \/ MainAfterShow
    \/ MainFinalSave

Spec == Init /\ [][Next]_vars

\* the runs over a whole library with auto-subscribe on, started without a
\* cache file or with one that records the last show as complete
InitLive ==
    /\ Init
    /\ ~rSpecific
    /\ rConfig = [auto_subscribe |-> TRUE, auto_download |-> FALSE]
    /\ \/ rDisk = NoFile
       \/ /\ DOMAIN rCache.tmdb_map = {MaxShows}
          /\ IsCompleteDir(rCache, MaxShows)

\* the event loop runs main_async until it returns: a run that can take a
\* step takes one
SpecLive == InitLive /\ [][Next]_vars /\ WF_vars(Next)

(***************************************************************************)
(* SpecCache: runs and resets over one cache file.                         *)
(***************************************************************************)
InitCache ==
    /\ cRec = EmptyCache
    /\ cFile \in FilesBefore
    /\ cTmp = NoFile
    /\ cBak = NoFile
    /\ cPc = "idle"
    /\ cWho = "run"
    /\ cPrev = NoFile
    /\ cLast = <<"run", "start">>
    /\ cMarked = {}
    /\ DiffOff
    /\ DispatchOff
    /\ RunOff
    /\ ResolveOff
    /\ LaterOff

NextCache ==
    \/ CacheLoad
    \/ CacheMark
    \/ CacheAddMapping
    \/ CacheSave
    \/ CacheReset
    \/ CacheWrite
    \/ CacheReplace
    \/ CacheProcessEnds

SpecCache == InitCache /\ [][NextCache]_vars

(***************************************************************************)
(* SpecResolve: the resolves of one run, against a catalog that answers    *)
(* the searches for the name with one list of candidates.                  *)
(***************************************************************************)
InitResolve ==
    /\ sMap \in {EmptyMap} \cup
                {[t \in {title} |-> EarlierId(1)] : title \in ResolveTitles}
    /\ sCatalog \in {Shows(years) : years \in CandidateLists}
    /\ sTitle = [name |-> 0, year |-> 0]
    /\ sRet = Resolved(0)
    /\ sAsked = FALSE
    /\ sBefore = sMap
    /\ sCount = 0
    /\ DiffOff
    /\ DispatchOff
    /\ RunOff
    /\ CacheOff
    /\ LaterOff

NextResolve ==
    \/ SearchHit
    \/ SearchFails
    \/ SearchAnswered

SpecResolve == InitResolve /\ [][NextResolve]_vars

(***************************************************************************)
(* SpecDispatch: one invocation of handle_missing_episodes.                *)
(***************************************************************************)
InitDispatch ==
    /\ mpToken \in BOOLEAN
    /\ mpIn \in DispatchInputs
    /\ mpPc = "start"
    /\ mpShould = FALSE
    /\ mpSubOk = "unset"
    /\ mpResults = <<>>
    /\ mpIdx = 0
    /\ mpOut = NoResult
    /\ mpLog = EmptyLog
    /\ DiffOff
    /\ RunOff
    /\ CacheOff
    /\ ResolveOff
    /\ LaterOff

NextDispatch ==
    \/ HandleStart
    \/ CreateSubscribeRequest
    \/ SearchRequest
    \/ AddDownloadRequest

SpecDispatch == InitDispatch /\ [][NextDispatch]_vars

(***************************************************************************)
(* SpecDiff: the diff applied to every inventory and structure.            *)
(***************************************************************************)
InitDiff ==
    /\ dLocal \in LocalInventories
    /\ dCanonical \in CanonicalStructures
    /\ dMissing = EmptyMap
    /\ dPc = "start"
    /\ DispatchOff
    /\ RunOff
    /\ CacheOff
    /\ ResolveOff
    /\ LaterOff

DiffStep ==
    /\ dPc = "start"
    /\ dMissing' = ComputeMissing(dLocal, dCanonical)
    /\ dPc' = "done"
    /\ UNCHANGED <<dLocal, dCanonical>>
    /\ UNCHANGED notDiffVars

NextDiff == DiffStep

SpecDiff == InitDiff /\ [][NextDiff]_vars

(***************************************************************************)
(* Claims about the diff (SpecDiff).                                       *)
(***************************************************************************)
\* every episode the catalog declares for a season is in the inventory's
\* set for that season (a season absent from the inventory has none)
Covered(local, canonical) ==
    \A s \in DOMAIN canonical : \A i \in DOMAIN canonical[s] :
        s \in DOMAIN local /\ canonical[s][i] \in local[s]

\* a list in strictly ascending order
Ascending(q) == \A i, j \in DOMAIN q : i < j => q[i] < q[j]

\* C1: the computed MissingSet is empty if and only if, for every season of
\* the canonical structure, every canonical episode is in the local inventory
C1_EmptyIffCovered ==
    dPc = "done" => ((dMissing = EmptyMap) <=> Covered(dLocal, dCanonical))

\* C1 witness: a diff was computed over a structure that declares episodes,
\* all of them present locally, and the MissingSet came out empty
C1_Witness ==
    /\ dPc = "done"
    /\ dMissing = EmptyMap
    /\ \E s \in DOMAIN dCanonical : Len(dCanonical[s]) >= 2

\* C2: for every canonical season the MissingSet holds exactly the ascending
\* list of the episodes the catalog declares and the inventory lacks, and no
\* entry when there is none; a season absent from the inventory yields all its
\* canonical episodes; a season only the inventory has never appears
C2_ExactDifference ==
    dPc = "done" =>
        /\ \A s \in DOMAIN dCanonical :
              LET have == IF s \in DOMAIN dLocal THEN dLocal[s] ELSE {}
                  lack == {e \in ToSet(dCanonical[s]) : e \notin have}
              IN  /\ lack # {} =>
                        /\ s \in DOMAIN dMissing
                        /\ ToSet(dMissing[s]) = lack
                        /\ Ascending(dMissing[s])
                  /\ lack = {} => s \notin DOMAIN dMissing
                  /\ (s \notin DOMAIN dLocal /\ dCanonical[s] # <<>>) =>
                        /\ s \in DOMAIN dMissing
                        /\ dMissing[s] = SortedList(ToSet(dCanonical[s]))
        /\ \A s \in DOMAIN dLocal :
              s \notin DOMAIN dCanonical => s \notin DOMAIN dMissing

\* C2 witness: one season lacks two episodes, another canonical season is
\* absent from the inventory, and the inventory has a season of its own
C2_Witness ==
    /\ dPc = "done"
    /\ \E s \in DOMAIN dMissing : Len(dMissing[s]) >= 2
    /\ \E s \in DOMAIN dCanonical : s \notin DOMAIN dLocal /\ s \in DOMAIN dMissing
    /\ \E s \in DOMAIN dLocal : s \notin DOMAIN dCanonical

(***************************************************************************)
(* Claims about a run of the orchestrator (Spec).                          *)
(***************************************************************************)

\* C3: once process_show has diffed a show and is back in the loop, before the
\* next show starts: if the diff was empty, the cache of the run records the
\* show as complete under the id it was resolved to, save_cache has been
\* called, and the cache file holds that cache whenever the write went
\* through (a write that fails raises out of process_show); if the diff was
\* not empty, the complete_dirs of the cache are the ones process_show was
\* entered with.
C3_CompleteMarkedAndPersisted ==
    (rPc \in {"dispatch", "after"} /\ rShow.diffed) =>
        IF rShow.missing = EmptyMap
        THEN /\ IsCompleteDir(rCache, CurrentShow)
             /\ rCache.complete_dirs[CurrentShow].tmdb_id = rShow.tmdb_id
             /\ "save" \in rFx
             /\ ~rRet.raised => rDisk = SavedDocument(rCache)
        ELSE rCache.complete_dirs = rEntry.cache.complete_dirs

\* a show not complete before is found complete, the cache is persisted, and
\* another show is still to come
C3_Witness ==
    /\ rPc = "after"
    /\ rShow.diffed
    /\ rShow.missing = EmptyMap
    /\ ~IsCompleteDir(rEntry.cache, CurrentShow)
    /\ ~rRet.raised
    /\ rDisk = SavedDocument(rCache)
    /\ rDisk # rEntry.disk
    /\ rIdx < Len(rDirs)

\* C4: when process_show returns for a show the cache recorded as complete at
\* entry: without the per-show override it has scanned nothing, asked the
\* catalog nothing, called no remediation, written neither the report nor the
\* skip log, left the cache and its file as they were, and returned
\* (0, 0, False, False); with the override it has gone on to scan the show.
C4_CompleteShowSkipped ==
    (rPc = "after" /\ IsCompleteDir(rEntry.cache, CurrentShow)) =>
        IF rSpecific
        THEN "scan" \in rFx
        ELSE /\ rFx = {}
             /\ rCache = rEntry.cache
             /\ rDisk = rEntry.disk
             /\ rReport = rEntry.report
             /\ rSkipLog = rEntry.skiplog
             /\ rRet = Returned(0, 0, FALSE, FALSE)

\* the second show of a library run is skipped after the first one was worked
\* on
C4_Witness ==
    /\ rPc = "after"
    /\ ~rSpecific
    /\ rIdx = 2
    /\ IsCompleteDir(rEntry.cache, CurrentShow)
    /\ rFx = {}
    /\ rReport # <<>>

\* a show recorded as complete is reconciled again under the override, and
\* found to miss episodes
C4_OverrideWitness ==
    /\ rPc = "after"
    /\ rSpecific
    /\ IsCompleteDir(rEntry.cache, CurrentShow)
    /\ rShow.diffed
    /\ rShow.missing # EmptyMap

(***************************************************************************)
(* Claims about the dispatcher (SpecDispatch).                             *)
(***************************************************************************)
\* C5: one call of create_subscribe or of add_download_task logs in again at
\* most once and sends its request at most twice
C5_AtMostOneRetry ==
    /\ mpLog.subLogins <= 1
    /\ mpLog.subReqs <= 2
    /\ mpLog.dlLogins <= 1
    /\ mpLog.dlReqs <= 2

\* C6: a search whose request was answered 401 has logged in again exactly
\* once and sent its request exactly twice when it reports its result
C6_SearchRetriesOnce ==
    (mpPc = "done" /\ mpLog.searchExpired) =>
        (mpLog.searchLogins = 1 /\ mpLog.searchReqs = 2)

\* the subscribe condition of the claim
SubscribeCondition ==
    /\ mpIn.auto_subscribe
    /\ \/ mpIn.subscribe_threshold = 0
       \/ Len(mpIn.episodes) > mpIn.subscribe_threshold

\* C7: with a session token, a create-subscription request is issued if and
\* only if auto_subscribe is set and the threshold is 0 or the missing count
\* is strictly greater than it
C7_SubscribeIff ==
    /\ (mpLog.subCalls = 1 \/ mpLog.subReqs >= 1) => SubscribeCondition
    /\ (mpPc = "done" /\ mpLog.passedLogin) =>
          (mpLog.subReqs >= 1 <=> SubscribeCondition)

\* C7 witness: auto_subscribe is set, the missing count equals a positive
\* threshold, and the invocation ended without a subscribe request
C7_Witness ==
    /\ mpPc = "done"
    /\ mpLog.passedLogin
    /\ mpIn.auto_subscribe
    /\ mpIn.subscribe_threshold > 0
    /\ Len(mpIn.episodes) = mpIn.subscribe_threshold
    /\ mpLog.subReqs = 0

\* C8: once the subscribe attempt has succeeded, the invocation has returned
\* the success outcome carrying the subscription id, and has issued no search
\* and no download request
C8_SubscribedIsTerminal ==
    mpSubOk = "yes" =>
        /\ mpPc = "done"
        /\ mpLog.subId \in ServiceIds
        /\ mpOut = Result(TRUE, "subscribed", mpIn.season, <<>>, mpLog.subId)
        /\ mpLog.searchCalls = 0
        /\ mpLog.searchReqs = 0
        /\ mpLog.submitted = <<>>
        /\ mpLog.dlReqs = 0

\* C8 witness: a subscribe succeeded with auto_download set as well
C8_Witness ==
    /\ mpSubOk = "yes"
    /\ mpIn.auto_download
    /\ mpOut.success

\* C9 as stated: the download path is entered if and only if auto_download is
\* set and no subscribe succeeded in the invocation
C9_DownloadIffAsStated ==
    mpPc = "done" =>
        (mpLog.searchCalls = 1 <=> (mpIn.auto_download /\ mpSubOk # "yes"))

\* C9: in an invocation that passed its login check, the download path is
\* entered if and only if auto_download is set and no subscribe succeeded;
\* a failed subscribe with auto_download unset ends in the failure outcome
\* with no search and no download request
C9_DownloadIff ==
    /\ (mpPc = "search" \/ mpLog.searchCalls = 1) =>
          (mpLog.passedLogin /\ mpIn.auto_download /\ mpSubOk # "yes")
    /\ (mpPc = "done" /\ mpLog.passedLogin) =>
          /\ mpLog.searchCalls = 1 <=> (mpIn.auto_download /\ mpSubOk # "yes")
          /\ (mpSubOk = "no" /\ ~mpIn.auto_download) =>
                /\ mpOut = Result(FALSE, "subscribe_failed", 0, <<>>, 0)
                /\ mpLog.searchReqs = 0
                /\ mpLog.submitted = <<>>

\* C9 witness: a subscribe was attempted and failed, auto_download is set,
\* and the search was made
C9_Witness ==
    /\ mpPc = "done"
    /\ mpSubOk = "no"
    /\ mpIn.auto_download
    /\ mpLog.searchCalls = 1

\* the results whose title holds the token of a missing episode
Matching ==
    {i \in DOMAIN mpResults :
        \E k \in DOMAIN mpIn.episodes :
            Contains(mpResults[i].title, Token(mpIn.season, mpIn.episodes[k]))}

\* C10 as stated: only the first matching result is submitted, so at most one
\* download task is submitted and a failed submission ends the invocation
C10_OnlyFirstMatchAsStated ==
    /\ Len(mpLog.submitted) <= 1
    /\ \A k \in DOMAIN mpLog.submitted :
          /\ mpLog.submitted[k] \in Matching
          /\ \A i \in Matching : mpLog.submitted[k] <= i

\* C10: the matching results are submitted in the order of the sorted result
\* list, the first matching one first and a later one only after the earlier
\* submissions failed; no other result is ever submitted; at most one
\* submission succeeds; the outcome is the success of the accepted result, and
\* a failure when no result matches or every submission fails
C10_MatchesInOrder ==
    /\ \A i, j \in DOMAIN mpResults :
          i < j => mpResults[i].seeders >= mpResults[j].seeders
    /\ \A k \in DOMAIN mpLog.submitted :
          /\ mpLog.submitted[k] \in Matching
          /\ Cardinality({i \in Matching : i < mpLog.submitted[k]}) = k - 1
    /\ mpLog.accepted <= 1
    /\ mpLog.accepted = 1 => mpPc = "done"
    /\ mpPc = "download" => mpLog.submitted # <<>>
    /\ (mpPc = "done" /\ mpLog.searchCalls = 1) =>
          /\ mpOut.success <=> mpLog.accepted = 1
          /\ mpOut.success =>
                mpOut = Result(TRUE, "download_added", 0,
                    mpResults[mpLog.submitted[Len(mpLog.submitted)]].title,
                    mpOut.id)
          /\ mpOut.kind = "no_resource" =>
                Len(mpLog.submitted) = Cardinality(Matching)

\* C10 witness: the first matching result was refused, the second matching
\* result was submitted and accepted
C10_Witness ==
    /\ mpPc = "done"
    /\ Len(mpLog.submitted) = 2
    /\ mpOut.success
    /\ mpOut.kind = "download_added"

\* neither remediation flag is set in the invocation
NoFlags == ~mpIn.auto_subscribe /\ ~mpIn.auto_download

\* no create-subscription, search or download request has been made
NoRemediationRequest ==
    /\ mpLog.subCalls = 0
    /\ mpLog.subReqs = 0
    /\ mpLog.searchCalls = 0
    /\ mpLog.searchReqs = 0
    /\ mpLog.submitted = <<>>
    /\ mpLog.dlReqs = 0

\* C11 as stated: with neither flag set no create-subscription, search or
\* download request is made, and every invocation that returns returns the
\* failure outcome "no action taken"
C11_NoFlagsNoActionAsStated ==
    NoFlags =>
        /\ NoRemediationRequest
        /\ mpPc = "done" => mpOut = Result(FALSE, "no_action", 0, <<>>, 0)

\* C11: with neither flag set no create-subscription, search or download
\* request is made; an invocation that holds a session token after its login
\* check returns the failure outcome "no action taken", and one whose login
\* was refused returns the failure outcome "login failed"
C11_NoFlagsNoAction ==
    NoFlags =>
        /\ NoRemediationRequest
        /\ mpPc \notin {"subscribe", "search", "download"}
        /\ (mpPc = "done" /\ mpLog.passedLogin) =>
              mpOut = Result(FALSE, "no_action", 0, <<>>, 0)
        /\ (mpPc = "done" /\ ~mpLog.passedLogin) =>
              mpOut = Result(FALSE, "login_failed", 0, <<>>, 0)

\* C11 witness: an invocation with neither flag set logged in and returned
\* "no action taken"
C11_Witness ==
    /\ NoFlags
    /\ mpPc = "done"
    /\ mpLog.logins = 1
    /\ mpOut = Result(FALSE, "no_action", 0, <<>>, 0)

(***************************************************************************)
(* Claims about the cache (SpecCache).                                     *)
(***************************************************************************)

\* the shows a record holds as complete
CompleteIn(cache) == DOMAIN cache.complete_dirs

\* positions of a run that holds a record
RunPcs == {"run", "writing", "written"}

\* C12 as stated: a show marked complete since the last reset is complete in
\* the record the process holds, whatever marks, memoizations, saves and
\* loads came after the mark
C12_MarkedUntilResetAsStated ==
    (cPc = "run") => (cMarked \subseteq CompleteIn(cRec))

\* C12: (1) a mark makes the show complete in the record, and while a run
\* holds its record no mark, memoization or save takes a complete show out of
\* it; (2) when a save of the run goes through, every show complete in the
\* record is complete in what a load of the file returns, and (3) only a save
\* that goes through changes the file, so a load returns the marks of the
\* last such save, not those made after it; (4) when reset_cache goes
\* through, a load of the file returns no complete show and the tmdb_map a
\* load returned before the reset.
C12_MarkedUntilReset ==
    [][/\ (cLast' = <<"run", "mark">>) =>
              \E d \in cMarked' :
                  /\ IsCompleteDir(cRec', d)
                  /\ cRec'.complete_dirs[d].checked_at = "now"
       /\ (cPc \in RunPcs /\ cPc' \in RunPcs /\ cWho' = "run") =>
              (CompleteIn(cRec) \subseteq CompleteIn(cRec'))
       /\ (cLast' = <<"run", "saved">> /\ cPc = "written") =>
              (CompleteIn(cRec) \subseteq CompleteIn(LoadCache(cFile')))
       /\ (cFile' # cFile) => (cPc = "written" /\ cLast'[2] = "saved")
       /\ (cLast' = <<"run", "load">>) =>
              (CompleteIn(cRec') = CompleteIn(LoadCache(cFile)))
       /\ (cLast' = <<"reset", "saved">> /\ cPc = "written") =>
              /\ CompleteIn(LoadCache(cFile')) = {}
              /\ LoadCache(cFile').tmdb_map = LoadCache(cFile).tmdb_map
      ]_vars

\* C12 witness: a reset went through over a file that held shows marked by a
\* run and memoized titles; the titles are still in the file
C12_Witness ==
    /\ cLast = <<"reset", "saved">>
    /\ \E i \in DOMAIN cPrev.complete_dirs :
           cPrev.complete_dirs[i][2].checked_at = "now"
    /\ cPrev.tmdb_map # <<>>
    /\ cFile.complete_dirs = <<>>
    /\ cFile.tmdb_map = cPrev.tmdb_map

\* C13: while a save is under way, and when the process is killed in it, the
\* cache file is the one the save found; a save that raises leaves the cache
\* file as it found it and no temporary file; a save that goes through
\* leaves the whole document of the record and no temporary file. The cache
\* file never holds part of the document being written.
C13_AtomicSave ==
    /\ (cPc \in {"writing", "written"}) => (cFile = cPrev)
    /\ (cLast[2] = "killed") => (cFile = cPrev)
    /\ (cLast[2] = "save_raised") => (cFile = cPrev /\ cTmp = NoFile)
    /\ (cLast = <<"run", "saved">>) =>
           (cFile = SavedDocument(cRec) /\ cTmp = NoFile)
    /\ (cLast = <<"reset", "saved">>) =>
           (cFile = SavedDocument(ResetRecord(LoadCache(cPrev)))
               /\ cTmp = NoFile)
    /\ (cFile.content = "cut") => (cFile \in FilesBefore)

\* C13 witness: the process was killed while the temporary file held part of
\* a new document; the cache file still holds the earlier document
C13_Witness ==
    /\ cLast = <<"run", "killed">>
    /\ cTmp.content = "cut"
    /\ DocumentSize(cTmp) > 0
    /\ cFile.content = "json"
    /\ cFile = cPrev

\* a save raised after part of the document was written (the temporary file
\* is gone, the cache file is the earlier document)
C13_RaisedWitness ==
    /\ cLast = <<"run", "save_raised">>
    /\ cFile.content = "json"
    /\ LoadCache(cFile) # cRec

\* C14: a load of a cache file that is not a usable document returns an empty
\* record, raises nothing and leaves a backup equal to the file; a load
\* without a cache file returns an empty record and creates no file
C14_CorruptLoadRecovers ==
    /\ cLast[2] # "load_raised"
    /\ (cLast = <<"run", "load">> /\ cFile.content \in {"cut", "bytes"}) =>
           (cRec = EmptyCache /\ cBak = cFile)
    /\ (cLast = <<"run", "load">> /\ cFile.content = "none") =>
           (cRec = EmptyCache /\ cBak = NoFile /\ cTmp = NoFile)

C16_MappingNeverChanged ==
    [][\A t \in DOMAIN rCache.tmdb_map :
           /\ t \in DOMAIN rCache'.tmdb_map
           /\ rCache'.tmdb_map[t] = rCache.tmdb_map[t]]_vars

\* C16 witness: the second show of a run, memoized by an earlier run under an
\* id the catalog no longer gives, was reconciled and marked complete under
\* that id, after the first show was memoized in this run
C16_Witness ==
    /\ rPc = "after"
    /\ rIdx = 2
    /\ rShow.diffed
    /\ rShow.tmdb_id = EarlierId(CurrentShow)
    /\ rCache.tmdb_map[CurrentShow] = EarlierId(CurrentShow)
    /\ IsCompleteDir(rCache, CurrentShow)
    /\ 1 \in DOMAIN rCache.tmdb_map
    /\ rCache.tmdb_map[1] = CatalogId(1)

(***************************************************************************)
(* Claims about search_tv_show (SpecResolve).                              *)
(***************************************************************************)

\* C17: a call for a title that is in tmdb_map makes no request of the
\* catalog, returns the memoized id and leaves tmdb_map alone; a call for a
\* title that is not makes a request; when it returns an id of the catalog,
\* tmdb_map holds that id under the title as given, year included, and is
\* otherwise as before; when it returns none or raises, tmdb_map is as
\* before; and the next call for the same title makes no request and returns
\* the same id.
C17_MemoizedUnderTitle ==
    /\ [](sCount > 0 =>
            /\ (sTitle \in DOMAIN sBefore) =>
                  (~sAsked /\ sRet = Resolved(sBefore[sTitle]) /\ sMap = sBefore)
            /\ (sTitle \notin DOMAIN sBefore) => sAsked
            /\ (sAsked /\ sRet.id # 0) =>
                  (~sRet.raised /\ sMap = MapSet(sBefore, sTitle, sRet.id))
            /\ (sAsked /\ sRet.id = 0) => (sMap = sBefore))
    /\ [][(sCount > 0 /\ sRet.id # 0 /\ sTitle' = sTitle) =>
              (~sAsked' /\ sRet' = sRet)]_vars

\* C17 witness: the second call for a title with a year, after the first one
\* got its id from the catalog, asks nothing and returns that id
C17_Witness ==
    /\ sCount = 2
    /\ sTitle.year = 1
    /\ ~sAsked
    /\ sRet.id \in {sCatalog[i].id : i \in DOMAIN sCatalog}
    /\ sMap = [t \in {sTitle} |-> sRet.id]

\* the difference of years between the i-th candidate and the title
YearsApart(results, i, year) == Abs(results[i].year - year)

\* the candidate the selection policy names, for a non-empty list
Expected(results, year) ==
    LET exact == {i \in DOMAIN results : results[i].year = year}
        near == {i \in DOMAIN results :
                    results[i].year # 0 /\ YearsApart(results, i, year) <= 1}
        dated == {i \in DOMAIN results : results[i].year # 0}
        closest == {i \in dated : \A j \in dated :
                       YearsApart(results, i, year)
                           <= YearsApart(results, j, year)}
    IN  IF year # 0 /\ exact # {} THEN SetMin(exact)
        ELSE IF year # 0 /\ near # {} THEN SetMin(near)
        ELSE IF year # 0 /\ dated # {} THEN SetMin(closest)
        ELSE 1

\* C18: a call that got a non-empty list of candidates from the catalog
\* returns the id of (a) the first candidate of the year of the title, else
\* (b) the first candidate with a year at most one away from it, else (c)
\* when the title has a year, the candidate with a year that is the least
\* far from it, the earliest of them on ties, else (d) when the title has no
\* year or no candidate has one, the first candidate
C18_SelectionPolicy ==
    (sCount > 0 /\ sAsked /\ ~sRet.raised /\ sCatalog # <<>>) =>
        sRet.id = sCatalog[Expected(sCatalog, ExtractYear(sTitle))].id

\* C18 witness: no candidate is within a year of the title; the second and
\* the third are equally close and closer than the first; the second is
\* returned
C18_Witness ==
    /\ sCount = 1
    /\ sAsked
    /\ sTitle.year = 1
    /\ Len(sCatalog) = 3
    /\ sCatalog[1].year = 4
    /\ sCatalog[2].year = 3
    /\ sCatalog[3].year = 3
    /\ sRet = Resolved(sCatalog[2].id)

(***************************************************************************)
(* Claims about errors in a run (Spec, SpecLive).                          *)
(***************************************************************************)

\* C19: when the storage scan, the resolve or the structure fetch of a show
\* fails, process_show returns without raising, with the complete_dirs of
\* the cache and the report as they were at entry; and after every show,
\* failed or not, the loop goes on with the next show of the list, or to the
\* end of the run after the last one
C19_FailureDoesNotAbort ==
    /\ []((rPc = "after" /\ rShow.failed # "none") =>
            /\ ~rRet.raised
            /\ rCache.complete_dirs = rEntry.cache.complete_dirs
            /\ rReport = rEntry.report)
    /\ [][(rPc = "after") =>
              IF rIdx < Len(rDirs)
              THEN /\ rPc' = "loop"
                   /\ rIdx' = rIdx + 1
                   /\ rDirs' = rDirs
              ELSE rPc' = "final"]_vars
    /\ [][(rPc = "loop") => (rPc' = "after" \/ rPc' = "tmdb")]_vars

\* C19 witness: the structure fetch of the first show of a library failed
\* after its title was memoized; the show is not complete and has no block
C19_Witness ==
    /\ rPc = "after"
    /\ rIdx = 1
    /\ Len(rDirs) > 1
    /\ rShow.failed = "structure"
    /\ "search" \in rFx
    /\ ~IsCompleteDir(rCache, CurrentShow)
    /\ rReport = <<>>

\* C20: every run comes to its end, and at its end save_cache has been called
\* after the last show, whatever failed or was raised on the way
C20_RunEndsWithSave ==
    /\ <>(rPc = "end")
    /\ [](rPc = "end" => (rIdx = Len(rDirs) /\ "save" \in rFx))
    /\ [][rPc' = "end" => rPc = "final"]_vars

\* C20 witness: the run of a library ended although the process_show of its
\* last show raised (its save failed after the show was marked complete), and
\* the final save went through
C20_Witness ==
    /\ rPc = "end"
    /\ Len(rDirs) > 1
    /\ rRet.raised
    /\ "save" \in rFx
    /\ rDisk = SavedDocument(rCache)
    /\ IsCompleteDir(rCache, CurrentShow)
    /\ rCache.complete_dirs[CurrentShow].checked_at = "now"

\* a remediation flag is set
Remediating == rConfig.auto_subscribe \/ rConfig.auto_download

\* process_show is back in the loop after the diff of the show found missing
\* episodes
BackWithMissing ==
    /\ rPc = "after"
    /\ rShow.diffed
    /\ rShow.missing # EmptyMap

\* C22: when the dispatcher fails or raises for a season, the loop over the
\* seasons goes on with the next season; once process_show is back, every
\* missing season was dispatched, every line of mp_results (the failed ones
\* included) is a line of the block, the block was written to the report
\* unless the write itself failed, and the run goes on with the next show or
\* with its final save
C22_DispatcherFailureRecorded ==
    /\ []((BackWithMissing /\ Remediating) =>
            /\ Len(rShow.calls) = Cardinality(DOMAIN rShow.missing)
            /\ Len(rShow.mp_results) = Len(rShow.calls)
            /\ \A k \in DOMAIN rShow.mp_results :
                 \E j \in DOMAIN rShow.result_lines :
                    rShow.result_lines[j] = rShow.mp_results[k]
            /\ "report" \in rFx
            /\ ~rRet.raised =>
                 /\ rReport = Append(rEntry.report, CurrentShow)
                 /\ rRet.has_missing)
    /\ [][(rPc = "dispatch" /\ rShow.todo # <<>>) =>
              /\ rPc' = "dispatch"
              /\ rShow'.todo = Tail(rShow.todo)]_vars
    /\ [][(rPc = "after" /\ "remediate" \in rFx) =>
              IF rIdx < Len(rDirs)
              THEN rPc' = "loop" /\ rIdx' = rIdx + 1
              ELSE rPc' = "final"]_vars

\* C22 witness: the dispatcher raised for the first missing season of the first
\* show of a library and failed for the second; both lines are in the block,
\* the block is in the report and another show is to come
C22_Witness ==
    /\ BackWithMissing
    /\ rIdx < Len(rDirs)
    /\ ~rRet.raised
    /\ rShow.mp_results = <<ResultLine(1, "raised"), ResultLine(2, "failure")>>
    /\ SubSeq(rShow.result_lines, Len(rShow.result_lines) - 1,
              Len(rShow.result_lines)) = rShow.mp_results
    /\ rReport = <<CurrentShow>>

\* the position of a show in the run
PositionOf(dir_name) == CHOOSE p \in DOMAIN rDirs : rDirs[p] = dir_name

\* C23: when process_show is back in the loop, the report holds one more block
\* than when it was entered, the block of the show, if the show was diffed,
\* episodes are missing and the write went through, and is the report it was
\* entered with otherwise; the blocks are those of shows the run has reached,
\* in the order of the run; a block is only ever appended, by the
\* process_show of its show
C23_OneBlockPerShowWithMissing ==
    /\ [](rPc = "after" =>
            IF rShow.diffed /\ rShow.missing # EmptyMap /\ ~rRet.raised
            THEN rReport = Append(rEntry.report, CurrentShow)
            ELSE rReport = rEntry.report)
    /\ [](\A i \in DOMAIN rReport :
            /\ \E p \in 1..rIdx : rDirs[p] = rReport[i]
            /\ \A j \in DOMAIN rReport :
                 i < j => PositionOf(rReport[i]) < PositionOf(rReport[j]))
    /\ [][rReport' # rReport =>
              /\ rPc = "dispatch"
              /\ rPc' = "after"
              /\ rReport' = Append(rReport, CurrentShow)]_vars

\* C23 witness: the second show of a library is being reconciled, with the
\* block of the first show in the report; the second show will have none
C23_Witness ==
    /\ rPc = "after"
    /\ rIdx = 2
    /\ Len(rDirs) >= 2
    /\ rShow.diffed
    /\ rShow.missing = EmptyMap
    /\ rEntry.report = <<rDirs[1]>>
    /\ rReport = <<rDirs[1]>>

\* C24: with a remediation flag set, the calls of the dispatcher made so far
\* are for the first seasons of the MissingSet in ascending order, each with
\* the missing episodes of its season, one line of mp_results per call; once
\* process_show is back there is one call per season of the MissingSet. With
\* no flag set there is no call.
C24_OncePerMissingSeason ==
    (rPc \in {"dispatch", "after"} /\ rShow.diffed /\ rShow.missing # EmptyMap) =>
        LET seasons == SortedList(DOMAIN rShow.missing)
            calls == rShow.calls
        IN  IF Remediating
            THEN /\ Len(calls) <= Len(seasons)
                 /\ rPc = "after" => Len(calls) = Len(seasons)
                 /\ \A k \in DOMAIN calls :
                      /\ calls[k].season = seasons[k]
                      /\ calls[k].episodes = rShow.missing[seasons[k]]
                      /\ calls[k].episodes # <<>>
                 /\ Len(rShow.mp_results) = Len(calls)
                 /\ \A k \in DOMAIN calls :
                      /\ rShow.mp_results[k].kind = "result"
                      /\ rShow.mp_results[k].season = seasons[k]
            ELSE /\ calls = <<>>
                 /\ rShow.mp_results = <<>>

\* C24 witness: a show misses episodes of seasons 1 and 2 only, while the
\* dispatcher was called for season 1 and then for season 2
C24_Witness ==
    /\ BackWithMissing
    /\ Remediating
    /\ DOMAIN rShow.missing = {1, 2}
    /\ Len(rShow.calls) = 2
    /\ rShow.calls[1].season = 1
    /\ rShow.calls[2].season = 2
    /\ rShow.calls[1].episodes # rShow.calls[2].episodes

C21_CadenceSave ==
    /\ [][(lPc = "after" /\ Len(lDirs) > SaveCadence
              /\ lIdx % SaveCadence = 0) => "save" \in lFx']_vars
    /\ [](~lWriteFailed /\ lOldest # 0 => lNewest - lOldest < SaveCadence)

(***************************************************************************)
(* Claims about get_tmdb_structure (SpecStructure).                        *)
(***************************************************************************)
\* the seasons whose request came back as `answer`
SeasonsAnswered(answer) ==
    {tSeasons[k] : k \in {j \in DOMAIN tLog : tLog[j] = answer}}

\* C26: get_tmdb_structure raises only when the request for the show fails,
\* never on the request for a season; and it returns the episode lists of
\* exactly the seasons whose request was answered, whatever the others came to
C26_SeasonFailureTolerated ==
    /\ tPc = "raised" => tLog = <<>>
    /\ tPc = "returned" => DOMAIN tStructure = SeasonsAnswered("ok")

\* the local inventories that hold the first episode of some seasons, the
\* specials among them
FirstEpisodes == {[season \in S |-> {1}] : S \in SUBSET LocalSeasonIds}

\* C27: the structure never has season 0, when it is returned and before; and
\* the missing episodes computed against a local inventory, with or without
\* files of season 0, have no season 0
C27_NoSeasonZero ==
    /\ 0 \notin DOMAIN tStructure
    /\ tPc = "returned" =>
         \A local \in FirstEpisodes :
            0 \notin DOMAIN ComputeMissing(local, tStructure)

\* C27 witness: the show declares its specials between two seasons whose
\* episode lists were fetched
C27_Witness ==
    /\ tPc = "returned"
    /\ tSeasons = <<1, 0, 2>>
    /\ tLog = <<"ok", "skipped", "ok">>
    /\ DOMAIN tStructure = {1, 2}
    /\ tStructure[2] # <<>>

(***************************************************************************)
(* Claims about parse_filename (SpecParse).                                *)
(***************************************************************************)
\* seasons and episodes of one and of two digits, from 1 to 99
TokenNumbers == {1, 2, 3, 4, 10, 11, 99}

\* a number written with one or two digits
Renderings(n) == {Decimal(n), Pad2(n)}

\* the token S<s>E<e> is in the name at position i: in either case of its
\* letters, with no digit after it
TokenAt(name, i, s, e) ==
    /\ name[i] \in {"S", "s"}
    /\ \E c2 \in {"E", "e"}, a \in Renderings(s), b \in Renderings(e) :
        LET token == <<name[i]>> \o a \o <<c2>> \o b
        IN  /\ i + Len(token) - 1 <= Len(name)
            /\ SubSeq(name, i, i + Len(token) - 1) = token
            /\ ~IsDigit(At(name, i + Len(token)))

\* an S, one or two digits, an E and a digit start to the left of position i
EarlierSE(name, i) ==
    \E j \in 1..(i - 1), a \in {1, 2} :
        /\ name[j] \in {"S", "s"}
        /\ \A k \in 1..a : IsDigit(At(name, j + k))
        /\ At(name, j + a + 1) \in {"E", "e"}
        /\ IsDigit(At(name, j + a + 2))

\* C28 as stated: parse_filename returns (s, e) for a file name that has the
\* token S<s>E<e> anywhere, whatever is before and after the token and
\* whatever the known season
C28_TokenRecoveredAsStated ==
    pPc = "done" =>
        LET name == FileName(pPath)
        IN  \A i \in {j \in DOMAIN name : name[j] \in {"S", "s"}} :
                \A s \in TokenNumbers, e \in TokenNumbers :
                    TokenAt(name, i, s, e) => pOut = Found(s, e)

\* C28: parse_filename returns (s, e) for a file name that has the token
\* S<s>E<e> with no S<digits>E<digit> to the left of it, whatever else is
\* before and after the token and whatever the known season
C28_LeftmostTokenRecovered ==
    pPc = "done" =>
        LET name == FileName(pPath)
        IN  \A i \in {j \in DOMAIN name : name[j] \in {"S", "s"}} :
                ~EarlierSE(name, i) =>
                    \A s \in TokenNumbers, e \in TokenNumbers :
                        TokenAt(name, i, s, e) => pOut = Found(s, e)

\* C28 witness: the token of season 10, episode 11 after an NxM form and
\* before an extension, with another season known
C28_Witness ==
    /\ pPc = "done"
    /\ pPath = <<"1", "x", "0", "5">> \o Token(10, 11) \o <<".", "m", "k", "v">>
    /\ pKnown = 2
    /\ pOut = Found(10, 11)

\* a pattern matches somewhere in the name
Matches(pattern, name) ==
    \E i \in DOMAIN name : MatchAt(pattern, name, i).parsed

\* C29: parse_filename returns what the first of the five rules that matches
\* anywhere in the file name yields, in the order SxxEyy, Season n Episode m,
\* NxM, localized, compact digits; when none of them matches and a season is
\* known, the known season with the episode of the first episode-only pattern
\* that matches; None otherwise
C29_PriorityOfRules ==
    pPc = "done" =>
        LET name == FileName(pPath)
            rules == <<"SxxEyy", "SeasonEpisode", "NxM", "Localized", "Compact">>
            episodeOnly == <<"E", "Episode", "LocalizedEpisode", "Bare">>
            hits == {k \in DOMAIN rules : Matches(rules[k], name)}
            episodeHits == {k \in DOMAIN episodeOnly : Matches(episodeOnly[k], name)}
        IN  IF hits # {}
            THEN pOut = Search(rules[SetMin(hits)], name)
            ELSE IF pKnown # -1 /\ episodeHits # {}
            THEN pOut = Found(pKnown,
                     Search(episodeOnly[SetMin(episodeHits)], name).episode)
            ELSE pOut = Unparsed

\* C29 witness: compact digits to the left of the verbose form, which wins
C29_Witness ==
    /\ pPc = "done"
    /\ Matches("Compact", FileName(pPath))
    /\ Matches("SeasonEpisode", FileName(pPath))
    /\ ~Matches("SxxEyy", FileName(pPath))
    /\ Search("Compact", FileName(pPath)) # Search("SeasonEpisode", FileName(pPath))
    /\ pPath[1] = "."
    /\ pOut = Found(2, 6)

\* C29, the second pass: no rule matches, the season known is 0, and the
\* verbose episode pattern yields the episode
C29_HintWitness ==
    /\ pPc = "done"
    /\ pKnown = 0
    /\ \A k \in DOMAIN Patterns : ~Matches(Patterns[k], FileName(pPath))
    /\ ~Matches("E", FileName(pPath))
    /\ pOut = Found(0, 9)

\* C30: a coordinate returned by parse_filename has a season of 0 or more and
\* an episode of 1 or more
C30_CoordinateInRange ==
    pOut.parsed => (pOut.season >= 0 /\ pOut.episode >= 1)

(***************************************************************************)
(* Claims about the storage backends (SpecScan).                           *)
(***************************************************************************)
\* the directories above a file that are season containers, by depth
SeasonContainers(q) ==
    {k \in 1..(Len(q) - 1) : ExtractSeasonFromDirname(q[k]) # -1}

\* what the contract of the scan gives for a tree: a video file directly inside
\* its outermost season container with the season of the container, a video
\* file below no season container with no season, and nothing else
ContractEntries(tree) ==
    {[path |-> q, season |-> -1] :
        q \in {r \in tree : IsVideoFile(r[Len(r)]) /\ SeasonContainers(r) = {}}}
    \cup
    {[path |-> q, season |-> ExtractSeasonFromDirname(q[Len(q) - 1])] :
        q \in {r \in tree : /\ IsVideoFile(r[Len(r)])
                            /\ SeasonContainers(r) = {Len(r) - 1}}}

\* C31: get_directory_structure returns the video files directly inside a
\* season directory with its season, the video files of every other directory
\* at any depth with no season, nothing from below a season directory and no
\* other file
C31_ScanReturnsContractEntries ==
    (bPc = "done" /\ bOp = "scan" /\ bFail = NoFailure)
        => bOut = Files(ContractEntries(bTree))

\* C32: for one tree, the four backends return the same entries
C32_BackendsAgree ==
    (bPc = "done" /\ bOp = "scan" /\ bFail = NoFailure)
        => \A other \in Backends :
               GetDirectoryStructureOf(other, bTree, NoFailure) = bOut

\* the directories a backend requests the listing of
RequestedDirs(backend, op, tree) ==
    IF op = "list" THEN {<<>>}
    ELSE CASE backend \in {"local", "alist"} ->
                {d \in Directories(tree) \cup {<<>>} :
                    \A k \in 1..(Len(d) - 1) : ExtractSeasonFromDirname(d[k]) = -1}
           [] backend = "webdav" ->
                {d \in Directories(tree) \cup {<<>>} :
                    \/ d = <<>>
                    \/ Len(d) = 1 /\ ExtractSeasonFromDirname(d[1]) # -1}
           [] backend = "rclone" ->
                {d \in Directories(tree) \cup {<<>>} : Len(d) <= 1}

\* C33: when a listing request that list_directories or
\* get_directory_structure makes fails, the operation raises; it does not
\* return a list
C33_FailedListingRaises ==
    (bPc = "done" /\ bFail.dir \in RequestedDirs(bBackend, bOp, bTree))
        => ~bOut.ok

(***************************************************************************)
(* Claims about the record of complete shows.                              *)
(***************************************************************************)
\* process_show marks the show complete for a local inventory and the
\* structure returned (src/main.py:110-133): the structure is not empty and
\* no episode of it is missing
MarksComplete(local, structure) ==
    /\ structure # EmptyMap
    /\ ~HasMissing(ComputeMissing(local, structure))

\* the local inventory holds every episode the catalog holds for the seasons
\* requested (every season declared but the specials)
HoldsDeclared(local, declared) ==
    \A season \in DOMAIN declared :
        \A k \in DOMAIN declared[season] :
            season \in DOMAIN local /\ declared[season][k] \in local[season]

\* C34: a show is marked complete only when the local inventory holds every
\* episode of every season the catalog declares for it, season 0 apart
C34_MarkedOnlyWhenHeld ==
    tPc = "returned" =>
        \A local \in FirstEpisodes \ {EmptyMap} :
            MarksComplete(local, tStructure) => HoldsDeclared(local, tDeclared)

\* C35: once the diff of a show has found missing episodes, the show is not
\* in complete_dirs: while its seasons are dispatched, when process_show is
\* back, and under the override for one show as well
C35_MissingNotComplete ==
    (rPc = "dispatch" \/ BackWithMissing)
        => ~IsCompleteDir(rCache, CurrentShow)

(***************************************************************************)
(* Claims about the dispatcher as a whole (SpecDispatch).                  *)
(***************************************************************************)
\* the requests an invocation has sent to subscribe, to search or to download
RemediationRequests ==
    mpLog.subReqs + mpLog.searchReqs + mpLog.dlReqs + Len(mpLog.submitted)

\* C36: an invocation of handle_missing_episodes has a result when it has
\* returned and only then, and the result does not change afterwards; the
\* result reports success only if create_subscribe or add_download_task
\* reported success in this invocation; an invocation without a token whose
\* login is refused returns a failure and sends no request to subscribe, to
\* search or to download
C36_OneOutcomeSuccessOnlyOnSuccess ==
    /\ []((mpPc = "done") <=> (mpOut.kind # "none"))
    /\ []((mpPc = "done" /\ mpOut.success)
            => (mpSubOk = "yes" \/ mpLog.accepted > 0))
    /\ []((mpPc = "done" /\ ~mpLog.passedLogin)
            => (~mpOut.success /\ RemediationRequests = 0))
    /\ [][mpPc = "done" => (mpPc' = "done" /\ mpOut' = mpOut)]_vars

\* C36 witness: the subscription failed and a download task was added: the
\* invocation returned success
C36_Witness ==
    /\ mpPc = "done"
    /\ mpOut.success
    /\ mpSubOk = "no"
    /\ mpLog.accepted = 1

\* C36, the refused login: the invocation had no token, login() returned
\* False, and the failure was returned with nothing requested
C36_RefusedWitness ==
    /\ mpPc = "done"
    /\ ~mpLog.passedLogin
    /\ mpLog.logins = 1
    /\ mpIn.auto_subscribe /\ mpIn.auto_download
    /\ mpOut.kind = "login_failed"

\* C37: once access_token is set it stays set, and a step of an invocation
\* that holds the token calls login() only when the request of that step was
\* answered 401
C37_TokenReused ==
    [][mpToken =>
          /\ mpToken'
          /\ (mpLog'.logins > mpLog.logins => mpLog'.expired > mpLog.expired)]_vars

\* C37 witness: an invocation that held the token sent a subscribe request, a
\* search request and a download request, and never logged in
C37_Witness ==
    /\ mpPc = "done"
    /\ mpToken
    /\ mpLog.logins = 0
    /\ mpLog.subReqs = 1
    /\ mpLog.searchReqs = 1
    /\ mpLog.dlReqs = 1
    /\ mpLog.accepted = 1

\* C37, the exception: a request of an invocation that held the token was
\* answered 401 and the invocation logged in again
C37_ExpiredWitness ==
    /\ mpToken
    /\ mpLog.passedLogin
    /\ mpLog.expired = 1
    /\ mpLog.logins = 1
    /\ mpLog.subLogins = 1

(***************************************************************************)
(* Claims about two runs in succession (SpecTwice).                        *)
(***************************************************************************)
\* the second run has ended
SecondRunEnded == wRun = 2 /\ wPc = "end"

\* the second run computed, for every show it did not skip, the missing
\* episodes the first run computed for it
SameMissing ==
    \A d \in ShowIds :
        (wSeen[2][d].reached /\ ~wSeen[2][d].skipped /\ wSeen[1][d].reached
            /\ ~wSeen[1][d].skipped)
            => wSeen[2][d].missing = wSeen[1][d].missing

\* C38 as stated: after the second of two runs over an unchanged library and
\* catalog the cache is the cache the first run left, and the second run
\* computed the same missing episodes
C38_SecondRunChangesNothingAsStated ==
    SecondRunEnded => (wCache = wFirst /\ SameMissing)

\* the shows of complete_dirs with their ids, whatever their checked_at
CompleteIds(cache) ==
    [d \in DOMAIN cache.complete_dirs |-> cache.complete_dirs[d].tmdb_id]

\* C38: after the second of two runs over an unchanged library and catalog,
\* tmdb_map and the shows and ids of complete_dirs are what the first run
\* left, and the second run computed the same missing episodes; when the runs
\* are over the whole library, the cache is the cache the first run left,
\* checked_at included
C38_SecondRunChangesNothing ==
    SecondRunEnded =>
        /\ wCache.tmdb_map = wFirst.tmdb_map
        /\ CompleteIds(wCache) = CompleteIds(wFirst)
        /\ SameMissing
        /\ ~wSpecific => wCache = wFirst

\* C38 witness: two runs over the whole library, started without a cache
\* file; the first marked show 1 complete and found missing episodes of show
\* 2, the second skipped show 1 and found the same missing episodes of show 2
C38_Witness ==
    /\ SecondRunEnded
    /\ ~wSpecific
    /\ IsCompleteDir(wFirst, 1)
    /\ wFirst.complete_dirs[1].checked_at = "first"
    /\ wSeen[2][1].skipped
    /\ ~wSeen[1][1].skipped
    /\ wSeen[1][2].missing # EmptyMap
    /\ wSeen[2][2].missing = wSeen[1][2].missing
    /\ wCache = wFirst

=============================================================================
